---- MODULE Spec2Model ----
(***************************************************************************)
(* AidStation analysis workers: the terrain-adaptive segment analyzer, the *)
(* fixed-segment analyzer, the performance-profile aggregator and the race *)
(* predictor's cutoff evaluation, as state machines.                       *)
(*                                                                         *)
(* Units.  Distances are whole metres, elevations whole metres, times      *)
(* whole seconds.  A value the code rounds to two decimals of a kilometre  *)
(* is held as a whole number of 10 m; a pace rounded to two decimals is    *)
(* held in hundredths of min/km; a multiplier rounded to three decimals in *)
(* thousandths.  A grade is held as the pair (elevation change, distance)  *)
(* and compared with a percentage by cross-multiplication.                 *)
(* An optional value is a sequence of length 0 (None) or 1.                *)
(***************************************************************************)
EXTENDS Integers, Sequences, FiniteSets, TLC

VARIABLES
    class,        \* the analyzer class being instantiated, "none" before
    trksegs,      \* GPX track segments read so far
    points,       \* analyzer._points
    constructed,  \* the constructor has returned
    tresult,      \* outcome of the last TerrainSegmentAnalyzer.analyze()
    tpasses,      \* the lists analyze() built on the way: raw, merged, final
    segments,     \* ActivityPerformanceAnalyzer._segments
    fresult,      \* outcome of the last ActivityPerformanceAnalyzer.analyze()
    calls,        \* what each analyze() call on the instance gave, in order
    segs_arg,     \* a segment list handed to one of the passes directly
    mresult,      \* outcome of _merge_short_segments(segs_arg)
    sresult,      \* outcome of _split_long_flat_descent_segments(segs_arg)
    analyses,     \* argument of aggregate_performance_profiles
    recency_weights,
    aresult,      \* outcome of the last aggregate_performance_profiles call
    station,      \* argument of _calculate_cutoff_status
    arrival_s,    \* predicted arrival, seconds after the start
    cresult,      \* outcome of the last _calculate_cutoff_status call
    raw_elevations,       \* the elevations read from the GPX points
    smoothed_elevations,  \* the smoothed series _extract_points built
    kresult,      \* outcome of _kalman_smooth_elevation(raw_elevations)
    predictions,  \* argument of predict_finish: the stations' predictions
    finish_total_km,  \* argument of predict_finish: total_distance_km, in units of 10 m
    finresult, \* outcome of the last predict_finish call
    pace_decay,  \* performance.pace_decay_by_progress_pct, keyed by a bucket's lower bound
    fatigue_args,  \* arguments of _calculate_fatigue_factor, in km
    ffresult, \* outcome of the last _calculate_fatigue_factor call
    course_points,  \* GPXCourseAnalyzer._points, with their smoothed elevations
    aid_stations,  \* argument of analyze_aid_stations
    asresult, \* outcome of the last analyze_aid_stations call
    race_stations,  \* argument of predict: the aid stations, in course order
    race_start,  \* argument of predict: start_time, seconds after midnight
    race_base_pace,  \* argument of predict: base_pace_min_km, in hundredths, or None
    race_total_km,  \* argument of predict: total_distance_km, in units of 10 m
    race_result,  \* outcome of the last predict call
    terrain_args,  \* arguments of _calculate_terrain_factor
    tfresult, \* outcome of the last _calculate_terrain_factor call
    task_failed,  \* argument of the task: the positions of the list serialized with success False
    task_result  \* outcome of the calculate_performance_profile task

vars == <<class, trksegs, points, constructed, tresult, tpasses, segments, fresult, calls,
          segs_arg, mresult, sresult,
          analyses, recency_weights, aresult, station, arrival_s, cresult,
          raw_elevations, smoothed_elevations, kresult,
          predictions, finish_total_km, finresult,
          pace_decay, fatigue_args, ffresult,
          course_points, aid_stations, asresult,
          race_stations, race_start, race_base_pace, race_total_km, race_result, terrain_args, tfresult,
          task_failed, task_result>>

analyzerVars ==
    <<class, trksegs, points, constructed, tresult, tpasses, segments, fresult, calls>>
passVars == <<segs_arg, mresult, sresult>>
aggregatorVars == <<analyses, recency_weights, aresult>>
cutoffVars == <<station, arrival_s, cresult>>
smoothVars == <<raw_elevations, smoothed_elevations, kresult>>
finishVars == <<predictions, finish_total_km, finresult>>
fatigueVars == <<pace_decay, fatigue_args, ffresult>>
courseVars == <<course_points, aid_stations, asresult>>
raceVars == <<race_stations, race_start, race_base_pace, race_total_km, race_result, terrain_args, tfresult>>
taskVars == <<task_failed, task_result>>

\* what the operations on one part of the state leave alone
notAnalyzerVars == <<passVars, aggregatorVars, cutoffVars, smoothVars, finishVars, fatigueVars, courseVars, raceVars, taskVars>>
notPassVars == <<analyzerVars, aggregatorVars, cutoffVars, smoothVars, finishVars, fatigueVars, courseVars, raceVars, taskVars>>
notAggregatorVars == <<analyzerVars, passVars, cutoffVars, smoothVars, finishVars, fatigueVars, courseVars, raceVars, taskVars>>
notCutoffVars == <<analyzerVars, passVars, aggregatorVars, smoothVars, finishVars, fatigueVars, courseVars, raceVars, taskVars>>
notSmoothVars == <<analyzerVars, passVars, aggregatorVars, cutoffVars, finishVars, fatigueVars, courseVars, raceVars, taskVars>>
notFinishVars == <<analyzerVars, passVars, aggregatorVars, cutoffVars, smoothVars, fatigueVars, courseVars, raceVars, taskVars>>
notFatigueVars == <<analyzerVars, passVars, aggregatorVars, cutoffVars, smoothVars, finishVars, courseVars, raceVars, taskVars>>
notCourseVars == <<analyzerVars, passVars, aggregatorVars, cutoffVars, smoothVars, finishVars, fatigueVars, raceVars, taskVars>>
notRaceVars == <<analyzerVars, passVars, aggregatorVars, cutoffVars, smoothVars, finishVars, fatigueVars, courseVars, taskVars>>
notTaskVars == <<analyzerVars, passVars, aggregatorVars, cutoffVars, smoothVars, finishVars, fatigueVars, courseVars, raceVars>>

---------------------------------------------------------------------------
(* Bounds of the model *)

\* GPX track segments per track file
MaxTrkSegs == 3

\* analyze() calls on one analyzer instance
MaxCalls == 2

(* Program constants *)

MIN_POINTS == 10
TERRAIN_MIN_POINTS == 10
window_size_m == 200
MIN_SEGMENT_LENGTH_M == 300
MAX_SEGMENT_LENGTH_M == 5000
SEGMENT_LENGTH_M == 1000

None == << >>
Some(x) == <<x>>

Min(a, b) == IF a <= b THEN a ELSE b
Max(a, b) == IF a >= b THEN a ELSE b
Abs(a) == IF a < 0 THEN -a ELSE a

\* round(n / d) as Python's round() gives it for an exactly representable
\* quotient: the nearest whole number, a tie going to the even one (d > 0)
RoundDiv(n, d) ==
    LET q == n \div d
        r == n % d
    IN  IF 2 * r < d THEN q
        ELSE IF 2 * r > d THEN q + 1
        ELSE IF q % 2 = 0 THEN q ELSE q + 1

\* round(metres / 1000, 2), in units of 10 m
RoundKm2(m) == RoundDiv(m, 10)

---------------------------------------------------------------------------
(* The point series *)

\* an absent timestamp (point.time is None)
NoTime == -1

\* the latest timestamp recorded so far (NoTime when there is none)
RECURSIVE LastTime(_, _)
LastTime(pts, i) ==
    IF i = 0 THEN NoTime
    ELSE IF pts[i].time # NoTime THEN pts[i].time
    ELSE LastTime(pts, i - 1)

\* The kinds of GPX track segment the model feeds a constructor: the number
\* of points, their spacing, the smoothed-elevation change and the time
\* between consecutive points.  Every smoothed series is the image of some
\* raw series (each Kalman gain lies strictly between 0 and 1), so the
\* smoothed change is chosen directly.  Dense points are 100 m apart (three
\* to a track segment), sparse ones 1.5 km (four to a track segment, 6 km);
\* slopes are 5 % up, level, 5 % down; a track segment may repeat a position
\* (a stop), repeat a timestamp, carry no timestamps or carry timestamps that
\* run backwards, or be a single point 4 m on.
TerrainTrkSegKinds ==
    { [n |-> 3, step |-> 100,  rise |-> 5,   dt |-> 40],
      [n |-> 3, step |-> 100,  rise |-> 0,   dt |-> 40],
      [n |-> 3, step |-> 100,  rise |-> -5,  dt |-> 40],
      [n |-> 4, step |-> 1500, rise |-> 75,  dt |-> 600],
      [n |-> 4, step |-> 1500, rise |-> 0,   dt |-> 600],
      [n |-> 4, step |-> 1500, rise |-> -75, dt |-> 600],
      [n |-> 3, step |-> 0,    rise |-> 0,   dt |-> 10] }

FixedTrkSegKinds ==
    { [n |-> 3, step |-> 100,  rise |-> 0,   dt |-> 40],
      [n |-> 3, step |-> 100,  rise |-> 0,   dt |-> 0],
      [n |-> 3, step |-> 100,  rise |-> 0,   dt |-> NoTime],
      [n |-> 4, step |-> 1500, rise |-> 75,  dt |-> 600],
      [n |-> 4, step |-> 1500, rise |-> 0,   dt |-> 600],
      [n |-> 4, step |-> 1500, rise |-> -75, dt |-> 600],
      [n |-> 4, step |-> 1500, rise |-> 0,   dt |-> NoTime],
      [n |-> 4, step |-> 1500, rise |-> 0,   dt |-> -30],
      [n |-> 1, step |-> 4,    rise |-> 0,   dt |-> 2] }

AnalyzerClasses == {"TerrainSegmentAnalyzer", "ActivityPerformanceAnalyzer"}

TrkSegKinds(c) ==
    IF c = "TerrainSegmentAnalyzer" THEN TerrainTrkSegKinds ELSE FixedTrkSegKinds

\* the first track point: cumulative_distance is 0.0
FirstPoint(kind) ==
    [distance_m |-> 0, elevation_smoothed |-> 100,
     time |-> IF kind.dt = NoTime THEN NoTime ELSE 0]

\* one more track point: cumulative_distance grows by the distance from the
\* previous point
NextPoint(pts, kind) ==
    LET prev == pts[Len(pts)]
    IN  [distance_m |-> prev.distance_m + kind.step,
         elevation_smoothed |-> prev.elevation_smoothed + kind.rise,
         time |-> IF kind.dt = NoTime THEN NoTime
                  ELSE Max(LastTime(pts, Len(pts)), 0) + kind.dt]

\* the points of one GPX track segment appended to the series
RECURSIVE ExtendBy(_, _, _)
ExtendBy(pts, kind, n) ==
    IF pts = << >> THEN ExtendBy(<<FirstPoint(kind)>>, kind, n)
    ELSE IF n = 0 THEN pts
    ELSE ExtendBy(Append(pts, NextPoint(pts, kind)), kind, n - 1)

---------------------------------------------------------------------------
(* TerrainSegmentAnalyzer *)

\* grade_percent >= t, for grade_percent = (de / dd) * 100 and dd > 0
GradeAtLeast(de, dd, t) == 100 * de >= t * dd
GradeAbove(de, dd, t) == 100 * de > t * dd

categorize_grade(de, dd) ==
    IF GradeAbove(de, dd, 8) THEN "steep_climb"
    ELSE IF GradeAbove(de, dd, 5) THEN "moderate_climb"
    ELSE IF GradeAtLeast(de, dd, 3) THEN "gentle_climb"
    ELSE IF GradeAbove(de, dd, -3) THEN "flat"
    ELSE IF GradeAbove(de, dd, -5) THEN "gentle_descent"
    ELSE IF GradeAbove(de, dd, -8) THEN "moderate_descent"
    ELSE "steep_descent"

get_terrain_type(de, dd) ==
    IF GradeAtLeast(de, dd, 3) THEN "climb"
    ELSE IF ~GradeAbove(de, dd, -3) THEN "descent"
    ELSE "flat"

\* index (from 0) of the first point at or beyond the target distance, the
\* last index when there is none, -1 (None) for an empty series
RECURSIVE FindFrom(_, _, _)
FindFrom(pts, target_distance_m, i) ==
    IF i >= Len(pts) THEN Len(pts) - 1
    ELSE IF pts[i + 1].distance_m >= target_distance_m THEN i
    ELSE FindFrom(pts, target_distance_m, i + 1)

find_point_at_distance(pts, target_distance_m) ==
    FindFrom(pts, target_distance_m, 0)

calculate_segment_metrics(pts, start_idx, end_idx) ==
    IF start_idx >= end_idx \/ end_idx >= Len(pts) THEN None
    ELSE LET start_point == pts[start_idx + 1]
             end_point == pts[end_idx + 1]
             distance_m == end_point.distance_m - start_point.distance_m
             elevation_change ==
                 end_point.elevation_smoothed - start_point.elevation_smoothed
         IN  IF distance_m <= 0 THEN None
             ELSE Some([start_idx |-> start_idx,
                        end_idx |-> end_idx,
                        start_distance_m |-> start_point.distance_m,
                        end_distance_m |-> end_point.distance_m,
                        distance_m |-> distance_m,
                        elevation_start_m |-> start_point.elevation_smoothed,
                        elevation_end_m |-> end_point.elevation_smoothed,
                        elevation_change_m |-> elevation_change,
                        time_seconds |->
                            IF start_point.time # NoTime /\ end_point.time # NoTime
                            THEN end_point.time - start_point.time
                            ELSE 0,
                        terrain_type |-> get_terrain_type(elevation_change, distance_m),
                        grade_category |-> categorize_grade(elevation_change, distance_m)])

RawSegment(s, e, t) == [start_idx |-> s, end_idx |-> e, terrain_type |-> t]

\* The windows the while loop of _detect_terrain_changes has to look at.  A
\* window [current_distance, current_distance + window_size_m) that holds no
\* point has start_idx = end_idx: the loop passes it and changes nothing.
\* NextWindow is the start of the first later window that holds a point, the
\* total distance (where the loop ends) when there is none.
WindowStarts(pts) ==
    { window_size_m * (pts[i].distance_m \div window_size_m) : i \in 1..Len(pts) }

NextWindow(pts, current_distance) ==
    LET later == { w \in WindowStarts(pts) : w > current_distance }
    IN  IF later = {} THEN pts[Len(pts)].distance_m
        ELSE CHOOSE w \in later : \A v \in later : w <= v

\* the while loop of _detect_terrain_changes and the final segment after it;
\* current_terrain "none" is Python's None
RECURSIVE DetectLoop(_, _, _, _, _)
DetectLoop(pts, current_distance, current_start_idx, current_terrain, raw_segments) ==
    LET total_distance == pts[Len(pts)].distance_m
    IN  IF current_distance < total_distance
        THEN LET window_end == Min(current_distance + window_size_m, total_distance)
                 start_idx == find_point_at_distance(pts, current_distance)
                 end_idx == find_point_at_distance(pts, window_end)
                 segment_metrics ==
                     IF start_idx >= end_idx THEN None
                     ELSE calculate_segment_metrics(pts, start_idx, end_idx)
                 next_distance == NextWindow(pts, current_distance)
             IN  IF segment_metrics = None
                 THEN DetectLoop(pts, next_distance,
                                 current_start_idx, current_terrain, raw_segments)
                 ELSE LET new_terrain == segment_metrics[1].terrain_type
                      IN  IF current_terrain = "none"
                          THEN DetectLoop(pts, next_distance,
                                          start_idx, new_terrain, raw_segments)
                          ELSE IF new_terrain # current_terrain
                          THEN DetectLoop(pts, next_distance,
                                          start_idx, new_terrain,
                                          Append(raw_segments,
                                                 RawSegment(current_start_idx, start_idx,
                                                            current_terrain)))
                          ELSE DetectLoop(pts, next_distance,
                                          current_start_idx, current_terrain,
                                          raw_segments)
        ELSE IF current_terrain # "none" /\ current_start_idx < Len(pts) - 1
             THEN Append(raw_segments,
                         RawSegment(current_start_idx, Len(pts) - 1, current_terrain))
             ELSE raw_segments

\* A faulty variant of detect_terrain_changes below: the segment still open
\* when the windows run out is not appended.
detect_without_final_segment(pts) ==
    IF Len(pts) < TERRAIN_MIN_POINTS THEN << >>
    ELSE LET raw_segments == DetectLoop(pts, 0, 0, "none", << >>)
         IN  SubSeq(raw_segments, 1, Len(raw_segments) - 1)

detect_terrain_changes(pts) ==
    IF Len(pts) < TERRAIN_MIN_POINTS THEN << >>
    ELSE DetectLoop(pts, 0, 0, "none", << >>)

SegLengthM(pts, seg) ==
    pts[seg.end_idx + 1].distance_m - pts[seg.start_idx + 1].distance_m

\* A faulty variant of MergeLoop below: the segment that absorbs a short one
\* takes the short one's terrain type.
RECURSIVE MergeLoopShortType(_, _, _, _)
MergeLoopShortType(pts, segs, i, merged) ==
    IF i >= Len(segs) THEN merged
    ELSE LET current == segs[i + 1]
             short == SegLengthM(pts, current) < MIN_SEGMENT_LENGTH_M
         IN  IF short /\ i + 1 < Len(segs)
             THEN MergeLoopShortType(pts,
                                     [segs EXCEPT ![i + 2] =
                                         RawSegment(current.start_idx, segs[i + 2].end_idx,
                                                    current.terrain_type)],
                                     i + 1, merged)
             ELSE IF short /\ merged # << >>
             THEN MergeLoopShortType(pts, segs, i + 1,
                                     [merged EXCEPT ![Len(merged)].end_idx = current.end_idx])
             ELSE MergeLoopShortType(pts, segs, i + 1, Append(merged, current))

\* the while loop of _merge_short_segments; i counts from 0, segs is the
\* argument list, which the loop overwrites at i + 1
RECURSIVE MergeLoop(_, _, _, _)
MergeLoop(pts, segs, i, merged) ==
    IF i >= Len(segs) THEN merged
    ELSE LET current == segs[i + 1]
             short == SegLengthM(pts, current) < MIN_SEGMENT_LENGTH_M
         IN  IF short /\ i + 1 < Len(segs)
             THEN LET next_seg == segs[i + 2]
                      merged_seg == RawSegment(current.start_idx, next_seg.end_idx,
                                               next_seg.terrain_type)
                  IN  MergeLoop(pts, [segs EXCEPT ![i + 2] = merged_seg], i + 1, merged)
             ELSE IF short /\ merged # << >>
             THEN MergeLoop(pts, segs, i + 1,
                            [merged EXCEPT ![Len(merged)].end_idx = current.end_idx])
             ELSE MergeLoop(pts, segs, i + 1, Append(merged, current))

\* A faulty variant of merge_short_segments below: a short segment is merged
\* into the one after it, never into the one before it.
RECURSIVE MergeForwardLoop(_, _, _, _)
MergeForwardLoop(pts, segs, i, merged) ==
    IF i >= Len(segs) THEN merged
    ELSE LET current == segs[i + 1]
         IN  IF SegLengthM(pts, current) < MIN_SEGMENT_LENGTH_M /\ i + 1 < Len(segs)
             THEN MergeForwardLoop(pts,
                                   [segs EXCEPT ![i + 2] =
                                       RawSegment(current.start_idx, segs[i + 2].end_idx,
                                                  segs[i + 2].terrain_type)],
                                   i + 1, merged)
             ELSE MergeForwardLoop(pts, segs, i + 1, Append(merged, current))

merge_forward_only(pts, segs) ==
    IF segs = << >> THEN << >> ELSE MergeForwardLoop(pts, segs, 0, << >>)

merge_short_segments(pts, segs) ==
    IF segs = << >> THEN << >> ELSE MergeLoop(pts, segs, 0, << >>)

\* A faulty variant of the inner loop below: a block is closed at the last
\* point before its 5 km mark while the next block opens at the first point
\* beyond it, so the stretch between the two points belongs to no block.
RECURSIVE BlockLoopGap(_, _, _, _, _, _)
BlockLoopGap(pts, terrain_type, end_distance_m, current_start_idx, current_start_m, split_segments) ==
    IF current_start_m < end_distance_m
    THEN LET block_end_m == Min(current_start_m + MAX_SEGMENT_LENGTH_M, end_distance_m)
             block_end_idx == FindFrom(pts, block_end_m, 0)
             cut_idx == IF pts[block_end_idx + 1].distance_m > block_end_m
                           /\ block_end_idx - 1 > current_start_idx
                        THEN block_end_idx - 1 ELSE block_end_idx
         IN  BlockLoopGap(pts, terrain_type, end_distance_m, block_end_idx,
                          block_end_m,
                          Append(split_segments,
                                 RawSegment(current_start_idx, cut_idx, terrain_type)))
    ELSE split_segments

\* the inner while loop of _split_long_flat_descent_segments: the 5 km blocks
\* of one segment, appended to split_segments
RECURSIVE BlockLoop(_, _, _, _, _, _)
BlockLoop(pts, terrain_type, end_distance_m, current_start_idx, current_start_m, split_segments) ==
    IF current_start_m < end_distance_m
    THEN LET block_end_m == Min(current_start_m + MAX_SEGMENT_LENGTH_M, end_distance_m)
             block_end_idx == find_point_at_distance(pts, block_end_m)
         IN  IF block_end_idx = -1 THEN split_segments
             ELSE BlockLoop(pts, terrain_type, end_distance_m, block_end_idx,
                            block_end_m,
                            Append(split_segments,
                                   RawSegment(current_start_idx, block_end_idx,
                                              terrain_type)))
    ELSE split_segments

\* A faulty variant of SplitOne below: it cuts every long segment, climbs too.
SplitOneAnyTerrain(pts, segment, split_segments) ==
    IF SegLengthM(pts, segment) <= MAX_SEGMENT_LENGTH_M
    THEN Append(split_segments, segment)
    ELSE BlockLoop(pts, segment.terrain_type, pts[segment.end_idx + 1].distance_m,
                   segment.start_idx, pts[segment.start_idx + 1].distance_m,
                   split_segments)

\* what one segment of the argument contributes to the result
SplitOne(pts, segment, split_segments) ==
    IF segment.terrain_type = "climb"
       \/ SegLengthM(pts, segment) <= MAX_SEGMENT_LENGTH_M
    THEN Append(split_segments, segment)
    ELSE BlockLoop(pts, segment.terrain_type, pts[segment.end_idx + 1].distance_m,
                   segment.start_idx, pts[segment.start_idx + 1].distance_m,
                   split_segments)

RECURSIVE SplitLoop(_, _, _, _)
SplitLoop(pts, segs, i, split_segments) ==
    IF i > Len(segs) THEN split_segments
    ELSE SplitLoop(pts, segs, i + 1, SplitOne(pts, segs[i], split_segments))

split_long_flat_descent_segments(pts, segs) == SplitLoop(pts, segs, 1, << >>)

NotCalled == [outcome |-> "not_called"]
Raised(e) == [outcome |-> "raised", error |-> e]
Returned(v) == [outcome |-> "returned", value |-> v]

\* the for loop of analyze() over enumerate(final_segments): the segments
\* whose metrics are not None, each with its enumerate index and its metrics
RECURSIVE KeptSegments(_, _, _)
KeptSegments(pts, final_segments, idx) ==
    IF idx >= Len(final_segments) THEN << >>
    ELSE LET segment == final_segments[idx + 1]
             metrics == calculate_segment_metrics(pts, segment.start_idx,
                                                  segment.end_idx)
             rest == KeptSegments(pts, final_segments, idx + 1)
         IN  IF metrics = None THEN rest
             ELSE <<[idx |-> idx, segment |-> segment, metrics |-> metrics[1]]>>
                  \o rest

TerrainSegment(k) ==
    [segment_index |-> k.idx,
     terrain_type |-> k.segment.terrain_type,
     grade_category |-> k.metrics.grade_category,
     start_distance_km |-> RoundKm2(k.metrics.start_distance_m),
     end_distance_km |-> RoundKm2(k.metrics.end_distance_m),
     distance_km |-> RoundKm2(k.metrics.distance_m),
     elevation_start_m |-> k.metrics.elevation_start_m,
     elevation_end_m |-> k.metrics.elevation_end_m,
     elevation_change_m |-> k.metrics.elevation_change_m,
     time_seconds |-> k.metrics.time_seconds]

RECURSIVE SumFrom(_, _)
SumFrom(ints, i) ==
    IF i > Len(ints) THEN 0 ELSE ints[i] + SumFrom(ints, i + 1)

\* sum(ints)
Sum(ints) == SumFrom(ints, 1)

\* climb_stats, descent_stats, flat_stats and their summary entries
TerrainStats(kept, terrain_type) ==
    LET Dist(k) == IF k.segment.terrain_type = terrain_type
                   THEN k.metrics.distance_m ELSE 0
        Time(k) == IF k.segment.terrain_type = terrain_type
                   THEN k.metrics.time_seconds ELSE 0
        Elev(k) == IF k.segment.terrain_type # terrain_type THEN 0
                   ELSE IF terrain_type = "climb" THEN k.metrics.elevation_change_m
                   ELSE IF terrain_type = "descent"
                   THEN Abs(k.metrics.elevation_change_m)
                   ELSE 0
        One(k) == IF k.segment.terrain_type = terrain_type THEN 1 ELSE 0
    IN  [total_distance_km |-> RoundKm2(Sum([j \in 1..Len(kept) |-> Dist(kept[j])])),
         total_time_seconds |-> Sum([j \in 1..Len(kept) |-> Time(kept[j])]),
         total_elevation_m |-> Sum([j \in 1..Len(kept) |-> Elev(kept[j])]),
         segment_count |-> Sum([j \in 1..Len(kept) |-> One(kept[j])])]

\* the value analyze() returns once the three passes are done
TerrainSegmentAnalysisResult(pts, final_segments) ==
    LET kept == KeptSegments(pts, final_segments, 0)
        Gain(k) == IF k.metrics.elevation_change_m > 0
                   THEN k.metrics.elevation_change_m ELSE 0
        Loss(k) == IF k.metrics.elevation_change_m > 0
                   THEN 0 ELSE Abs(k.metrics.elevation_change_m)
        Time(k) == k.metrics.time_seconds
    IN  [total_distance_km |-> RoundKm2(pts[Len(pts)].distance_m),
         total_elevation_gain_m |-> Sum([j \in 1..Len(kept) |-> Gain(kept[j])]),
         total_elevation_loss_m |-> Sum([j \in 1..Len(kept) |-> Loss(kept[j])]),
         total_time_seconds |-> Sum([j \in 1..Len(kept) |-> Time(kept[j])]),
         segments |-> [i \in 1..Len(kept) |-> TerrainSegment(kept[i])],
         summary |-> [climb |-> TerrainStats(kept, "climb"),
                      descent |-> TerrainStats(kept, "descent"),
                      flat |-> TerrainStats(kept, "flat"),
                      total_segments |-> Len(kept)]]

\* the lists analyze() builds before the metrics: raw, merged, final
TerrainPasses(pts) ==
    LET raw_segments == detect_terrain_changes(pts)
        merged_segments == merge_short_segments(pts, raw_segments)
    IN  [raw |-> raw_segments,
         merged |-> merged_segments,
         final |-> split_long_flat_descent_segments(pts, merged_segments)]

NoPasses == [raw |-> << >>, merged |-> << >>, final |-> << >>]

\* A faulty variant of the guard below: it refuses a series of exactly ten
\* points too.
TerrainTooFewPointsInclusive(pts) == Len(pts) <= TERRAIN_MIN_POINTS

\* whether TerrainSegmentAnalyzer.analyze() refuses the series
TerrainTooFewPoints(pts) == Len(pts) < TERRAIN_MIN_POINTS

---------------------------------------------------------------------------
(* ActivityPerformanceAnalyzer *)

GradientCategory ==
    {"steep_downhill", "downhill", "gentle_downhill", "flat",
     "gentle_uphill", "uphill", "steep_uphill"}

\* gradient_percent < t, for gradient_percent = (de / dd) * 100 and dd > 0
GradeBelow(de, dd, t) == 100 * de < t * dd

categorize_gradient(de, dd) ==
    IF GradeBelow(de, dd, -8) THEN "steep_downhill"
    ELSE IF GradeBelow(de, dd, -3) THEN "downhill"
    ELSE IF GradeBelow(de, dd, -1) THEN "gentle_downhill"
    ELSE IF GradeBelow(de, dd, 1) THEN "flat"
    ELSE IF GradeBelow(de, dd, 3) THEN "gentle_uphill"
    ELSE IF GradeBelow(de, dd, 8) THEN "uphill"
    ELSE "steep_uphill"

\* round((time_seconds / 60) / distance_km, 2), in hundredths of min/km
ActualPace(time_seconds, distance_m) == RoundDiv(5000 * time_seconds, 3 * distance_m)

SegmentMetrics(start_point, end_point) ==
    LET distance_m == end_point.distance_m - start_point.distance_m
        elevation_change ==
            end_point.elevation_smoothed - start_point.elevation_smoothed
        time_seconds == end_point.time - start_point.time
    IN  [start_distance_km |-> RoundKm2(start_point.distance_m),
         end_distance_km |-> RoundKm2(end_point.distance_m),
         distance_km |-> RoundKm2(distance_m),
         elevation_change_m |-> elevation_change,
         time_seconds |-> time_seconds,
         actual_pace_min_km |-> ActualPace(time_seconds, distance_m),
         gradient_category |-> categorize_gradient(elevation_change, distance_m)]

\* A faulty variant of FixedLoop below: a segment is closed after a tenth of
\* the segment length.
RECURSIVE FixedLoopClosingEarly(_, _, _, _)
FixedLoopClosingEarly(pts, i, current_segment_start, segs) ==
    IF i >= Len(pts) THEN segs
    ELSE LET point == pts[i + 1]
             start_point == pts[current_segment_start + 1]
             distance_in_segment == point.distance_m - start_point.distance_m
         IN  IF 10 * distance_in_segment >= SEGMENT_LENGTH_M \/ i = Len(pts) - 1
             THEN LET time_seconds ==
                          IF start_point.time # NoTime /\ point.time # NoTime
                          THEN point.time - start_point.time
                          ELSE 0
                  IN  IF time_seconds <= 0 \/ distance_in_segment <= 0
                      THEN FixedLoopClosingEarly(pts, i + 1, i, segs)
                      ELSE FixedLoopClosingEarly(pts, i + 1, i,
                                                 Append(segs, SegmentMetrics(start_point, point)))
             ELSE FixedLoopClosingEarly(pts, i + 1, current_segment_start, segs)

\* A faulty variant of FixedLoop below: after a dropped candidate the segment
\* start stays where it was.
RECURSIVE FixedLoopKeepingStart(_, _, _, _)
FixedLoopKeepingStart(pts, i, current_segment_start, segs) ==
    IF i >= Len(pts) THEN segs
    ELSE LET point == pts[i + 1]
             start_point == pts[current_segment_start + 1]
             distance_in_segment == point.distance_m - start_point.distance_m
         IN  IF distance_in_segment >= SEGMENT_LENGTH_M \/ i = Len(pts) - 1
             THEN LET time_seconds ==
                          IF start_point.time # NoTime /\ point.time # NoTime
                          THEN point.time - start_point.time
                          ELSE 0
                  IN  IF time_seconds <= 0 \/ distance_in_segment <= 0
                      THEN FixedLoopKeepingStart(pts, i + 1, current_segment_start, segs)
                      ELSE FixedLoopKeepingStart(pts, i + 1, i,
                                                 Append(segs, SegmentMetrics(start_point, point)))
             ELSE FixedLoopKeepingStart(pts, i + 1, current_segment_start, segs)

\* the for loop of _analyze_segments; i and current_segment_start count
\* from 0
RECURSIVE FixedLoop(_, _, _, _)
FixedLoop(pts, i, current_segment_start, segs) ==
    IF i >= Len(pts) THEN segs
    ELSE LET point == pts[i + 1]
             start_point == pts[current_segment_start + 1]
             distance_in_segment == point.distance_m - start_point.distance_m
         IN  IF distance_in_segment >= SEGMENT_LENGTH_M \/ i = Len(pts) - 1
             THEN LET time_seconds ==
                          IF start_point.time # NoTime /\ point.time # NoTime
                          THEN point.time - start_point.time
                          ELSE 0
                  IN  IF time_seconds <= 0 \/ distance_in_segment <= 0
                      THEN FixedLoop(pts, i + 1, i, segs)
                      ELSE FixedLoop(pts, i + 1, i,
                                     Append(segs, SegmentMetrics(start_point, point)))
             ELSE FixedLoop(pts, i + 1, current_segment_start, segs)

\* the list _analyze_segments computes (before it stores it)
analyze_segments(pts) ==
    IF Len(pts) < MIN_POINTS THEN << >> ELSE FixedLoop(pts, 1, 0, << >>)

calculate_pace_by_gradient(segs) ==
    [category \in GradientCategory |->
        LET Pace(s) == IF s.gradient_category = category
                       THEN s.actual_pace_min_km ELSE 0
            One(s) == IF s.gradient_category = category THEN 1 ELSE 0
            n == Sum([j \in 1..Len(segs) |-> One(segs[j])])
        IN  IF n = 0 THEN None ELSE Some(RoundDiv(Sum([j \in 1..Len(segs) |-> Pace(segs[j])]), n))]

\* whether ActivityPerformanceAnalyzer.analyze() refuses the series
TooFewPoints(pts) == Len(pts) < MIN_POINTS

\* the key of the progress bucket with index bucket_idx (0 to 9)
ProgressKey(bucket_idx) ==
    <<"0-10", "10-20", "20-30", "30-40", "40-50",
      "50-60", "60-70", "70-80", "80-90", "90-100">>[bucket_idx + 1]

\* a faulty variant of BaselineBuckets below: the baseline is taken over
\* the first bucket only
BaselineFirstBucket == {0}

\* the buckets of the baseline: "0-10" and "10-20"
BaselineBuckets == {0, 1}

\* bucket_idx of a segment: min(int(pct_of_race // 10), 9), for
\* pct_of_race = (seg_center_km / total_distance_km) * 100
ProgressBucket(seg, total_distance_m) ==
    Min((50 * (seg.start_distance_km + seg.end_distance_km)) \div total_distance_m, 9)

\* _calculate_normalized_pace_profile: None, or the profile with its
\* multipliers in thousandths; the multipliers of the grade-adjusted paces,
\* which need the Minetti polynomial, are left out
calculate_normalized_pace_profile(pts, segs) ==
    LET total_distance_m == pts[Len(pts)].distance_m
        InBuckets(buckets) ==
            { j \in 1..Len(segs) : ProgressBucket(segs[j], total_distance_m) \in buckets }
        PaceSum(members) ==
            Sum([j \in 1..Len(segs) |->
                    IF j \in members THEN segs[j].actual_pace_min_km ELSE 0])
        baseline == InBuckets(BaselineBuckets)
        filled == { b \in 0..9 : InBuckets({b}) # {} }
        BucketOf(key) == CHOOSE b \in filled : ProgressKey(b) = key
    IN  IF Len(segs) < 5 THEN None
        ELSE IF total_distance_m < 5000 THEN None
        ELSE IF baseline = {} THEN None
        ELSE Some([pace_by_progress_pct |->
                       [key \in { ProgressKey(b) : b \in filled } |->
                           RoundDiv(1000 * PaceSum(InBuckets({BucketOf(key)}))
                                         * Cardinality(baseline),
                                    Cardinality(InBuckets({BucketOf(key)}))
                                         * PaceSum(baseline))],
                   baseline_pace_min_km |->
                       RoundDiv(PaceSum(baseline), Cardinality(baseline)),
                   activity_distance_km |-> RoundKm2(total_distance_m)])

\* the value ActivityPerformanceAnalyzer.analyze() returns, without the
\* figures gpxpy's moving-time data and the Minetti polynomial give
ActivityAnalysisResult(pts, segs) ==
    LET Gain(i) == Max(pts[i + 1].elevation_smoothed - pts[i].elevation_smoothed, 0)
        Loss(i) == Max(pts[i].elevation_smoothed - pts[i + 1].elevation_smoothed, 0)
        start_time == pts[1].time
        end_time == pts[Len(pts)].time
    IN  [total_distance_km |-> RoundKm2(pts[Len(pts)].distance_m),
         elevation_gain_m |-> Sum([i \in 1..(Len(pts) - 1) |-> Gain(i)]),
         elevation_loss_m |-> Sum([i \in 1..(Len(pts) - 1) |-> Loss(i)]),
         total_time_seconds |->
             IF start_time # NoTime /\ end_time # NoTime
             THEN end_time - start_time ELSE 0,
         pace_by_gradient |-> calculate_pace_by_gradient(segs),
         normalized_pace_profile |-> calculate_normalized_pace_profile(pts, segs),
         segment_count |-> Len(segs)]

---------------------------------------------------------------------------
(* Actions of the analyzers *)

\* __init__ up to gpxpy.parse: self._points = []
Parse(c) ==
    /\ class = "none"
    /\ class' = c
    /\ UNCHANGED <<trksegs, points, constructed, tresult, tpasses, segments, fresult, calls>>
    /\ UNCHANGED notAnalyzerVars

\* _extract_points: the points of the next track segment of the file
ExtractTrkSeg(kind) ==
    /\ class # "none"
    /\ ~constructed
    /\ trksegs < MaxTrkSegs
    /\ trksegs' = trksegs + 1
    /\ points' = ExtendBy(points, kind, kind.n)
    /\ UNCHANGED <<class, constructed, tresult, tpasses, segments, fresult, calls>>
    /\ UNCHANGED notAnalyzerVars

\* the constructor returns: the series is fixed from here on
Construct ==
    /\ class # "none"
    /\ ~constructed
    /\ constructed' = TRUE
    /\ UNCHANGED <<class, trksegs, points, tresult, tpasses, segments, fresult, calls>>
    /\ UNCHANGED notAnalyzerVars

\* TerrainSegmentAnalyzer.analyze()
TerrainSegmentAnalyzer_analyze ==
    /\ class = "TerrainSegmentAnalyzer"
    /\ constructed
    /\ Len(calls) < MaxCalls
    /\ IF TerrainTooFewPoints(points)
       THEN /\ tresult' = Raised("ValueError: Not enough points for analysis")
            /\ tpasses' = NoPasses
       ELSE LET p == TerrainPasses(points)
            IN  /\ tpasses' = p
                /\ tresult' = Returned(TerrainSegmentAnalysisResult(points, p.final))
    /\ calls' = Append(calls, [result |-> tresult', points |-> points])
    /\ UNCHANGED <<class, trksegs, points, constructed, segments, fresult>>
    /\ UNCHANGED notAnalyzerVars

\* A faulty variant of StoredSegments below: the segments of a call are added
\* to those an earlier call left on the instance.
StoredSegmentsAppended(old_segments, new_segments) == old_segments \o new_segments

\* self._segments = segments: what _analyze_segments leaves on the instance
StoredSegments(old_segments, new_segments) == new_segments

\* ActivityPerformanceAnalyzer.analyze()
ActivityPerformanceAnalyzer_analyze ==
    /\ class = "ActivityPerformanceAnalyzer"
    /\ constructed
    /\ Len(calls) < MaxCalls
    /\ IF TooFewPoints(points)
       THEN /\ fresult' = Raised("ValueError: Not enough points for analysis")
            /\ UNCHANGED segments
       ELSE LET segs == StoredSegments(segments, analyze_segments(points))
            IN  /\ segments' = segs
                /\ fresult' = Returned(ActivityAnalysisResult(points, segs))
    /\ calls' = Append(calls, [result |-> fresult', points |-> points])
    /\ UNCHANGED <<class, trksegs, points, constructed, tresult, tpasses>>
    /\ UNCHANGED notAnalyzerVars

---------------------------------------------------------------------------
(* The merge pass and the split pass called on a list of their own *)

TerrainTypes == {"climb", "descent", "flat"}

\* longest segment list handed to a pass
MaxRawSegs == 3

\* the lists of at most k contiguous raw segments over the points from index
\* start_idx on: each segment begins at the point where the one before it ends
RECURSIVE ContiguousLists(_, _, _)
ContiguousLists(pts, start_idx, k) ==
    IF k = 0 THEN { << >> }
    ELSE { << >> } \cup
         UNION { { <<RawSegment(start_idx, e, t)>> \o rest :
                     rest \in ContiguousLists(pts, e, k - 1) } :
                 e \in (start_idx + 1)..(Len(pts) - 1), t \in TerrainTypes }

\* the track of an analyzer from the kinds of its track segments
RECURSIVE Track(_, _)
Track(kinds, i) ==
    IF i = 0 THEN << >> ELSE ExtendBy(Track(kinds, i - 1), kinds[i], kinds[i].n)

\* the series the passes are tried on: close points, far points (a segment of
\* four steps is 6 km long), and close points, a stop and far points
PassTracks ==
    LET dense == [n |-> 3, step |-> 100, rise |-> 0, dt |-> 40]
        sparse == [n |-> 4, step |-> 1500, rise |-> 0, dt |-> 600]
        stop == [n |-> 3, step |-> 0, rise |-> 0, dt |-> 10]
    IN  { <<dense, dense, dense>>, <<sparse, sparse>>, <<dense, stop, sparse>> }

\* analyzer._merge_short_segments(segs_arg), on a list of its own as in
\* analyze(), where the list the loop overwrites is a local never read again
merge_short_segments_call ==
    /\ mresult = NotCalled
    /\ mresult' = Returned(merge_short_segments(points, segs_arg))
    /\ UNCHANGED <<segs_arg, sresult, notPassVars>>

\* analyzer._split_long_flat_descent_segments(segs_arg)
split_long_flat_descent_segments_call ==
    /\ sresult = NotCalled
    /\ sresult' = Returned(split_long_flat_descent_segments(points, segs_arg))
    /\ UNCHANGED <<segs_arg, mresult, notPassVars>>

---------------------------------------------------------------------------
(* aggregate_performance_profiles *)

\* the keys of a pace-decay map: "0-10", "10-20", ..., "90-100"
ProgressKeys ==
    {"0-10", "10-20", "20-30", "30-40", "40-50",
     "50-60", "60-70", "70-80", "80-90", "90-100"}

\* The activity results the model hands to the aggregator, with the values
\* analyze() rounds to two decimals held in hundredths (paces, fatigue
\* factor) or in units of 10 m (distance), and decay multipliers in
\* thousandths.  An activity reports a flat pace or none, and a pace for
\* each of the six sloping buckets or for none of them; it is a short run
\* without a normalized profile, or a run of 10 or of 20 km with a profile
\* for some of the progress buckets.
HillPaces ==
    [steep_downhill |-> 455, downhill |-> 480, gentle_downhill |-> 520,
     gentle_uphill |-> 650, uphill |-> 802, steep_uphill |-> 1150]

PaceChoices == [flat : {None, Some(500), Some(601)}, hills : BOOLEAN]

ActivityShapes ==
    { [grade_adjusted_pace_min_km |-> 550, fatigue_factor |-> 0,
       total_distance_km |-> 300, normalized_pace_profile |-> None],
      [grade_adjusted_pace_min_km |-> 601, fatigue_factor |-> 215,
       total_distance_km |-> 1000,
       normalized_pace_profile |->
           Some([gap_by_progress_pct |->
                    ("0-10" :> 1000 @@ "10-20" :> 1000 @@ "50-60" :> 1085)])],
      [grade_adjusted_pace_min_km |-> 601, fatigue_factor |-> 215,
       total_distance_km |-> 2000,
       normalized_pace_profile |->
           Some([gap_by_progress_pct |->
                    ("0-10" :> 1000 @@ "50-60" :> 1200 @@ "90-100" :> 1300)])] }

ActivityResult(paces, shape) ==
    [pace_by_gradient |->
         [category \in GradientCategory |->
             IF category = "flat" THEN paces.flat
             ELSE IF paces.hills THEN Some(HillPaces[category])
             ELSE None],
     grade_adjusted_pace_min_km |-> shape.grade_adjusted_pace_min_km,
     fatigue_factor |-> shape.fatigue_factor,
     total_distance_km |-> shape.total_distance_km,
     normalized_pace_profile |-> shape.normalized_pace_profile]

Activities ==
    { ActivityResult(paces, shape) : paces \in PaceChoices, shape \in ActivityShapes }

\* recency weights a caller gives (whole numbers; only their ratios count)
RecencyWeights == {1, 3}

\* longest activity list
MaxActivities == 2

\* if recency_weights is None: [1.0] * len(analyses)
DefaultWeights(list, weights) ==
    IF weights = None THEN [i \in 1..Len(list) |-> 1] ELSE weights[1]

\* A variant of GradientPaces below that counts an activity without a value
\* for the bucket as a pace of zero, so that it dilutes the mean.
GradientPacesDiluted(list, weights, gradient) ==
    [i \in 1..Len(list) |->
        <<IF list[i].pace_by_gradient[gradient] = None THEN 0
          ELSE list[i].pace_by_gradient[gradient][1],
          weights[i]>>]

\* gradient_paces[gradient] after the loop over zip(analyses, weights): the
\* (pace, weight) pairs of the activities whose pace for the bucket is not
\* None.  Every weight is the caller's weight over total_weight; the pairs
\* hold the caller's weight, the common divisor cancelling in the mean.
GradientPaces(list, weights, gradient) ==
    LET Reports(i) == list[i].pace_by_gradient[gradient] # None
        Pair(i) == <<list[i].pace_by_gradient[gradient][1], weights[i]>>
    IN  SelectSeq([i \in 1..Len(list) |-> IF Reports(i) THEN Pair(i) ELSE << >>],
                  LAMBDA pair : pair # << >>)

\* all_gaps, all_fatigues
AllGaps(list, weights) ==
    [i \in 1..Len(list) |-> <<list[i].grade_adjusted_pace_min_km, weights[i]>>]

AllFatigues(list, weights) ==
    [i \in 1..Len(list) |-> <<list[i].fatigue_factor, weights[i]>>]

\* A variant of PaceDecayByPct below that weights a multiplier by the
\* recency weight alone.
PaceDecayByPctRecencyOnly(list, weights, pct_key) ==
    LET Has(i) == /\ list[i].normalized_pace_profile # None
                  /\ pct_key \in DOMAIN list[i].normalized_pace_profile[1].gap_by_progress_pct
        Pair(i) == <<list[i].normalized_pace_profile[1].gap_by_progress_pct[pct_key],
                     weights[i]>>
    IN  SelectSeq([i \in 1..Len(list) |-> IF Has(i) THEN Pair(i) ELSE << >>],
                  LAMBDA pair : pair # << >>)

\* pace_decay_by_pct[pct_key]: (multiplier, weight * total_distance_km) of
\* the activities whose profile has the key
PaceDecayByPct(list, weights, pct_key) ==
    LET Has(i) == /\ list[i].normalized_pace_profile # None
                  /\ pct_key \in DOMAIN list[i].normalized_pace_profile[1].gap_by_progress_pct
        Pair(i) == <<list[i].normalized_pace_profile[1].gap_by_progress_pct[pct_key],
                     weights[i] * list[i].total_distance_km>>
    IN  SelectSeq([i \in 1..Len(list) |-> IF Has(i) THEN Pair(i) ELSE << >>],
                  LAMBDA pair : pair # << >>)

\* A variant of weighted_average below that divides by the number of values
\* instead of by their total weight.
weighted_average_by_count(values_weights) ==
    IF values_weights = << >> THEN None
    ELSE Some([num |-> SumFrom([i \in 1..Len(values_weights) |->
                                   values_weights[i][1] * values_weights[i][2]], 1),
               den |-> Len(values_weights)])

\* weighted_average: None, or the quotient sum(v * w) / sum(w) as a fraction
weighted_average(values_weights) ==
    LET total_w == Sum([i \in 1..Len(values_weights) |-> values_weights[i][2]])
    IN  IF values_weights = << >> THEN None
        ELSE IF total_w = 0 THEN None
        ELSE Some([num |-> SumFrom([i \in 1..Len(values_weights) |->
                                       values_weights[i][1] * values_weights[i][2]], 1),
                   den |-> total_w])

\* round(num / den, digits) in units of the last digit kept: the nearest
\* whole number, and either neighbour when the quotient lies exactly half way
\* (which way the floating-point quotient falls depends on its rounding
\* errors)
Rounded(avg) ==
    LET q == avg.num \div avg.den
        r == avg.num % avg.den
    IN  IF 2 * r < avg.den THEN {q}
        ELSE IF 2 * r > avg.den THEN {q + 1}
        ELSE {q, q + 1}

\* round(x, 2) if x else 0.0; round(x or 0.0, 2)
RoundedOrZero(avg) == IF avg = None THEN {0} ELSE Rounded(avg[1])

\* the aggregated pace-decay maps the call can return: a key for every
\* bucket with a contributor, its mean rounded to three decimals
AggregatedPaceDecay(list, weights) ==
    LET keys == { k \in ProgressKeys :
                    weighted_average(PaceDecayByPct(list, weights, k)) # None }
        Avg(k) == weighted_average(PaceDecayByPct(list, weights, k))[1]
    IN  { f \in [keys -> UNION { Rounded(Avg(k)) : k \in keys }] :
            \A k \in keys : f[k] \in Rounded(Avg(k)) }

\* A variant of NoAnalyses below that lets an empty list through.
NoAnalysesIgnored(list) == FALSE

\* if not analyses
NoAnalyses(list) == list = << >>

\* the PerformanceProfile values a call can return
PerformanceProfiles(list, recency) ==
    LET weights == DefaultWeights(list, recency)
        Pace(gradient) ==
            RoundedOrZero(weighted_average(GradientPaces(list, weights, gradient)))
    IN  [flat_pace_min_km : Pace("flat"),
         gentle_uphill_pace_min_km : Pace("gentle_uphill"),
         uphill_pace_min_km : Pace("uphill"),
         steep_uphill_pace_min_km : Pace("steep_uphill"),
         gentle_downhill_pace_min_km : Pace("gentle_downhill"),
         downhill_pace_min_km : Pace("downhill"),
         steep_downhill_pace_min_km : Pace("steep_downhill"),
         overall_gap_min_km : RoundedOrZero(weighted_average(AllGaps(list, weights))),
         fatigue_factor : RoundedOrZero(weighted_average(AllFatigues(list, weights))),
         pace_decay_by_progress_pct : AggregatedPaceDecay(list, weights),
         activities_analyzed : {Len(list)},
         total_distance_km :
             {Sum([i \in 1..Len(list) |-> list[i].total_distance_km])},
         gradient_sample_sizes :
             {[gradient \in GradientCategory |->
                  Len(GradientPaces(list, weights, gradient))]}]

\* the caller puts one more activity result, with its weight, on its lists
AddActivity(analysis, weight) ==
    /\ aresult = NotCalled
    /\ task_result = NotCalled
    /\ Len(analyses) < MaxActivities
    /\ analyses' = Append(analyses, analysis)
    /\ recency_weights' = Append(recency_weights, weight)
    /\ UNCHANGED <<aresult, notAggregatorVars>>

\* aggregate_performance_profiles(analyses, recency): recency is the caller's
\* weight list or None
aggregate_performance_profiles(recency) ==
    /\ aresult = NotCalled
    /\ task_result = NotCalled
    /\ IF NoAnalyses(analyses)
       THEN aresult' = Raised("ValueError: No analyses provided")
       ELSE \E profile \in PerformanceProfiles(analyses, recency) :
                aresult' = Returned([profile |-> profile, recency_weights |-> recency])
    /\ UNCHANGED <<analyses, recency_weights, notAggregatorVars>>

---------------------------------------------------------------------------
(* The calculate_performance_profile task *)

\* The task is handed the serialized results of the list analyses; the
\* weight it derives from the date of the i-th one is recency_weights[i]
\* (exp(-days_ago / half_life), or 0.5 without a date: positive, and only
\* the ratios count).

\* ActivityAnalysisResult(...) as the task rebuilds it from the dict: the
\* fields it does not pass take the defaults of the dataclass
ActivityAnalysisResultFromDict(analysis_data) ==
    [pace_by_gradient |-> analysis_data.pace_by_gradient,
     grade_adjusted_pace_min_km |-> analysis_data.grade_adjusted_pace_min_km,
     fatigue_factor |-> analysis_data.fatigue_factor,
     total_distance_km |-> analysis_data.total_distance_km,
     normalized_pace_profile |-> None]

\* the entries of a list at the positions from i on that are not in failed
RECURSIVE WithoutFailed(_, _, _)
WithoutFailed(list, failed, i) ==
    IF i > Len(list) THEN << >>
    ELSE IF i \in failed THEN WithoutFailed(list, failed, i + 1)
    ELSE <<list[i]>> \o WithoutFailed(list, failed, i + 1)

\* calculate_performance_profile(activity_analyses)
calculate_performance_profile(failed) ==
    /\ aresult = NotCalled
    /\ task_result = NotCalled
    /\ task_failed' = failed
    /\ LET valid == WithoutFailed(analyses, failed, 1)
           rebuilt == [i \in 1..Len(valid) |-> ActivityAnalysisResultFromDict(valid[i])]
           weights == WithoutFailed(recency_weights, failed, 1)
       IN  IF analyses = << >>
           THEN task_result' = Returned([success |-> FALSE,
                                         error |-> "No activities provided"])
           ELSE IF rebuilt = << >>
           THEN task_result' = Returned([success |-> FALSE,
                                         error |-> "No valid activities to analyze"])
           ELSE \E profile \in PerformanceProfiles(rebuilt, Some(weights)) :
                    task_result' = Returned([success |-> TRUE, profile |-> profile])
    /\ UNCHANGED notTaskVars

---------------------------------------------------------------------------
(* RacePlanPredictor._calculate_cutoff_status *)

\* Times are whole seconds after start_time; cutoff_hours_from_start is a
\* whole number of hours or None.

\* latest cutoff the model gives a station, hours from the start
MaxCutoffHours == 2

Stations ==
    [cutoff_hours_from_start : {None} \cup { Some(h) : h \in 0..MaxCutoffHours }]

\* the predicted arrivals: on either side of each cutoff and of each status
\* threshold before it
Arrivals ==
    { a \in { 3600 * h - b : h \in 0..MaxCutoffHours,
                             b \in {-1, 0, 1, 899, 900, 901, 1799, 1800, 1801} } :
        a >= 0 }

\* Python's truth value of an Optional[float]: None and 0.0 are both false
Truthy(optional) == optional # None /\ optional[1] # 0

\* the status for a buffer, which the code takes in minutes
StatusOfBuffer(buffer_s) ==
    IF buffer_s < 0 THEN "missed"
    ELSE IF buffer_s < 15 * 60 THEN "danger"
    ELSE IF buffer_s < 30 * 60 THEN "warning"
    ELSE "safe"

\* (cutoff_time, buffer, status), the buffer held in seconds
calculate_cutoff_status(st, predicted_arrival) ==
    IF ~Truthy(st.cutoff_hours_from_start)
    THEN [cutoff_time |-> None, buffer_s |-> None, status |-> "safe"]
    ELSE LET cutoff_time == 3600 * st.cutoff_hours_from_start[1]
             buffer_s == cutoff_time - predicted_arrival
         IN  [cutoff_time |-> Some(cutoff_time),
              buffer_s |-> Some(buffer_s),
              status |-> StatusOfBuffer(buffer_s)]

\* predictor._calculate_cutoff_status(station, start_time, predicted_arrival)
RacePlanPredictor_calculate_cutoff_status ==
    /\ cresult = NotCalled
    /\ cresult' = Returned(calculate_cutoff_status(station, arrival_s))
    /\ UNCHANGED <<station, arrival_s, notCutoffVars>>

---------------------------------------------------------------------------
(* Elevation smoothing (_kalman_smooth_elevation, the same in each analyzer) *)

\* The smoother's floating-point values are held on a grid: elevations in
\* millimetres, variances and gains in units of 1/KalmanUnit.  Each
\* arithmetic result is rounded to the nearest grid value, a tie going to
\* the even one, as IEEE arithmetic rounds to the nearest float.
KalmanUnit == 10000

\* R = 10.0, the measurement noise, and Q = 0.1, the process noise
KALMAN_R == 10 * KalmanUnit
KALMAN_Q == KalmanUnit \div 10

\* most elevations the model reads into one series
MaxElevations == 7

\* the first elevation and the changes from one point to the next, in mm: a
\* descent, level ground, a rise too small to move the estimate, a rise
FirstElevations == {100000}
ElevationSteps == {-25000, 0, 1, 25000}

\* A faulty variant of the loop body below: the correction is subtracted
\* from the prediction.
KalmanStepReversed(x, P, elevation) ==
    LET x_pred == x
        P_pred == P + KALMAN_Q
        K == RoundDiv(P_pred * KalmanUnit, P_pred + KALMAN_R)
    IN  [x |-> x_pred - RoundDiv(K * (elevation - x_pred), KalmanUnit),
         P |-> RoundDiv((KalmanUnit - K) * P_pred, KalmanUnit)]

\* one pass of the loop body: the next estimate x and variance P
KalmanStep(x, P, elevation) ==
    LET x_pred == x
        P_pred == P + KALMAN_Q
        K == RoundDiv(P_pred * KalmanUnit, P_pred + KALMAN_R)
    IN  [x |-> x_pred + RoundDiv(K * (elevation - x_pred), KalmanUnit),
         P |-> RoundDiv((KalmanUnit - K) * P_pred, KalmanUnit)]

\* for i in range(1, n), with i counted from 1 as the sequences are
RECURSIVE KalmanLoop(_, _, _, _, _)
KalmanLoop(elevations, i, x, P, smoothed) ==
    IF i > Len(elevations) THEN smoothed
    ELSE LET next == KalmanStep(x, P, elevations[i])
         IN  KalmanLoop(elevations, i + 1, next.x, next.P, Append(smoothed, next.x))

\* A faulty variant of the smoother below: the first measurement only seeds
\* the estimate and is left out of the output.
kalman_smooth_without_seed(elevations) ==
    IF Len(elevations) < 2 THEN elevations
    ELSE KalmanLoop(elevations, 2, elevations[1], KalmanUnit, << >>)

kalman_smooth_elevation(elevations) ==
    IF Len(elevations) < 2 THEN elevations
    ELSE KalmanLoop(elevations, 2, elevations[1], KalmanUnit, <<elevations[1]>>)

\* the classes whose _extract_points smooths the elevations it has read
SmoothingClasses ==
    {"GPXCourseAnalyzer", "ActivityPerformanceAnalyzer", "TerrainSegmentAnalyzer"}

\* _extract_points reads one more point: its elevation joins the raw series
ReadElevation(elevation) ==
    /\ smoothed_elevations = NotCalled
    /\ kresult = NotCalled
    /\ Len(raw_elevations) < MaxElevations
    /\ raw_elevations' = Append(raw_elevations, elevation)
    /\ UNCHANGED <<smoothed_elevations, kresult, notSmoothVars>>

\* the end of _extract_points of class c: more than 5 points are smoothed,
\* fewer keep their raw elevations
SmoothElevations(c) ==
    /\ smoothed_elevations = NotCalled
    /\ smoothed_elevations' =
           Returned([class |-> c,
                     smoothed |-> IF Len(raw_elevations) > 5
                                  THEN kalman_smooth_elevation(raw_elevations)
                                  ELSE raw_elevations])
    /\ UNCHANGED <<raw_elevations, kresult, notSmoothVars>>

\* _kalman_smooth_elevation called on a series of any length, as the tests do
kalman_smooth_elevation_call ==
    /\ kresult = NotCalled
    /\ kresult' = Returned(kalman_smooth_elevation(raw_elevations))
    /\ UNCHANGED <<raw_elevations, smoothed_elevations, notSmoothVars>>

---------------------------------------------------------------------------
(* RacePlanPredictor.predict_finish *)

\* Distances are in units of 10 m, paces in hundredths of min/km, and times
\* in ticks after start_time, a tick being 1/TicksPerMinute of a minute (the
\* product of a distance and a pace is a whole number of ticks).
TicksPerMinute == 10000

\* abs(last_prediction.distance_km - total_distance_km) < 0.5
FINISH_WITHIN == 50

\* most predictions in a list
MaxPredictions == 2

\* what predict() stores for a station: the arrival time itself, and the
\* arrival in minutes rounded to a whole number
PredictionResult(distance_km, arrival_ticks, segment_pace) ==
    [distance_km |-> distance_km,
     predicted_arrival_minutes |-> RoundDiv(arrival_ticks, TicksPerMinute),
     predicted_arrival_time |-> arrival_ticks,
     segment_pace_min_km |-> segment_pace]

\* the course is 10 km long; stations lie before the finish, on either side
\* of 0.5 km from it, at it, and past it; arrivals are 60.0, 60.4 and 60.6
\* minutes after the start; paces 6.00 and 7.25 min/km
TotalDistances == {1000}
PredictionResults ==
    { PredictionResult(d, a, pace) :
        d \in {940, 950, 951, 1000, 1049, 1050},
        a \in {600000, 604000, 606000},
        pace \in {600, 725} }

\* A faulty variant of predict_finish below: the remaining distance is never
\* extrapolated, the last station's arrival is the finish.
predict_finish_last_station(preds, total_distance_km) ==
    IF preds = << >>
    THEN {[predicted_total_minutes |-> 0, predicted_finish_time |-> 0]}
    ELSE {[predicted_total_minutes |-> preds[Len(preds)].predicted_arrival_minutes,
           predicted_finish_time |-> preds[Len(preds)].predicted_arrival_time]}

\* the results predict_finish can return (two where round() meets a tie)
predict_finish(preds, total_distance_km) ==
    IF preds = << >>
    THEN {[predicted_total_minutes |-> 0, predicted_finish_time |-> 0]}
    ELSE LET last_prediction == preds[Len(preds)]
             remaining_distance == total_distance_km - last_prediction.distance_km
             estimated_time == remaining_distance * last_prediction.segment_pace_min_km
             total_minutes ==
                 last_prediction.predicted_arrival_minutes * TicksPerMinute + estimated_time
         IN  IF Abs(last_prediction.distance_km - total_distance_km) < FINISH_WITHIN
             THEN {[predicted_total_minutes |-> last_prediction.predicted_arrival_minutes,
                    predicted_finish_time |-> last_prediction.predicted_arrival_time]}
             ELSE { [predicted_total_minutes |-> rounded,
                     predicted_finish_time |-> total_minutes] :
                      rounded \in Rounded([num |-> total_minutes, den |-> TicksPerMinute]) }

\* predict() appends the prediction of one more station, which is not
\* before the previous one in distance nor in time
AppendPrediction(prediction) ==
    /\ finresult = NotCalled
    /\ Len(predictions) < MaxPredictions
    /\ predictions # << >> =>
           LET prev == predictions[Len(predictions)]
           IN  /\ prev.distance_km <= prediction.distance_km
               /\ prev.predicted_arrival_time <= prediction.predicted_arrival_time
    /\ predictions' = Append(predictions, prediction)
    /\ UNCHANGED <<finish_total_km, finresult, notFinishVars>>

RacePlanPredictor_predict_finish(total_distance_km) ==
    /\ finresult = NotCalled
    /\ finish_total_km' = total_distance_km
    /\ \E result \in predict_finish(predictions, total_distance_km) :
           finresult' = Returned(result)
    /\ UNCHANGED <<predictions, notFinishVars>>

---------------------------------------------------------------------------
(* RacePlanPredictor._calculate_fatigue_factor *)

\* Multipliers are in thousandths.  A pace-decay map is a function from the
\* lower bounds of its buckets ("20-30" is 20) to multipliers; None and the
\* empty map are the function with no bucket.  A result is the fraction
\* num/den of a multiplier (den > 0), the arithmetic taken as exact.

RECURSIVE GCD(_, _)
GCD(a, b) == IF b = 0 THEN Abs(a) ELSE GCD(b, a % b)

\* the value num/den in lowest terms (den > 0)
Fraction(num, den) == [num |-> num \div GCD(num, den), den |-> den \div GCD(num, den)]

\* most buckets a pace-decay map of the model knows
MaxKnownBuckets == 3

BucketStarts == { 10 * i : i \in 0..9 }

PaceDecayMaps ==
    UNION { [known -> {1000, 1150}] :
              known \in { b \in SUBSET BucketStarts : Cardinality(b) <= MaxKnownBuckets } }

\* stations at the start, along the course, at the finish and past it, on a
\* course of 100 km or of no length
FatigueArgs ==
    [distance_km : {0, 5, 35, 55, 95, 100, 120}, total_distance_km : {0, 100}]

\* self.performance.fatigue_factor (DEFAULT_FATIGUE_FACTOR)
DEFAULT_FATIGUE_FACTOR == 1080

\* sorted(...): the known buckets in ascending order
RECURSIVE SortedBuckets(_)
SortedBuckets(known) ==
    IF known = {} THEN << >>
    ELSE LET first == CHOOSE b \in known : \A c \in known : b <= c
         IN  <<first>> \o SortedBuckets(known \ {first})

\* for i, (pct, mult) in enumerate(available_buckets), i counted from 1:
\* the first bucket above the progress that is not the first of the list is
\* interpolated with the one before it; without one, the last bucket is used
RECURSIVE InterpolateLoop(_, _, _, _, _)
InterpolateLoop(decay, available_buckets, i, distance_km, total_distance_km) ==
    IF i > Len(available_buckets)
    THEN Fraction(decay[available_buckets[Len(available_buckets)]], 1)
    ELSE LET pct == available_buckets[i]
             prev_pct == available_buckets[i - 1]
         IN  IF pct * total_distance_km > 100 * distance_km /\ i > 1
             THEN Fraction(decay[prev_pct] * (pct - prev_pct) * total_distance_km
                             + (100 * distance_km - prev_pct * total_distance_km)
                               * (decay[pct] - decay[prev_pct]),
                           (pct - prev_pct) * total_distance_km)
             ELSE InterpolateLoop(decay, available_buckets, i + 1,
                                  distance_km, total_distance_km)

calculate_fatigue_factor(decay, distance_km, total_distance_km) ==
    IF total_distance_km <= 0 THEN Fraction(1000, 1)
    ELSE IF DOMAIN decay # {}
    THEN LET bucket_idx == Min((10 * distance_km) \div total_distance_km, 9)
             bucket_key == 10 * bucket_idx
         IN  IF bucket_key \in DOMAIN decay
             THEN Fraction(decay[bucket_key], 1)
             ELSE InterpolateLoop(decay, SortedBuckets(DOMAIN decay), 1,
                                  distance_km, total_distance_km)
    ELSE Fraction(1000 * total_distance_km
                    + (DEFAULT_FATIGUE_FACTOR - 1000) * distance_km,
                  total_distance_km)

RacePlanPredictor_calculate_fatigue_factor ==
    /\ ffresult = NotCalled
    /\ ffresult' = Returned(calculate_fatigue_factor(pace_decay, fatigue_args.distance_km,
                                                     fatigue_args.total_distance_km))
    /\ UNCHANGED <<pace_decay, fatigue_args, notFatigueVars>>

---------------------------------------------------------------------------
(* RacePlanPredictor.predict and _calculate_terrain_factor *)

\* Station distances are in units of 10 m, elevation gains and losses in
\* metres, paces in hundredths of min/km, multipliers as fractions num/den,
\* times in whole seconds (start_time after midnight, arrivals after the
\* start).  The predictor is built with a profile of flat pace 7.00 min/km,
\* fatigue factor 1.08 and no pace-decay map, and a night-time slowdown of
\* 0.25; with the stations of the model every pace is a whole number of
\* hundredths and every segment time a whole number of seconds, so the
\* arithmetic below is exact.

\* most aid stations handed to predict
MaxRaceStations == 2

\* self.performance.flat_pace_min_km
FLAT_PACE == 700

\* self.nighttime_slowdown, in hundredths
NIGHTTIME_SLOWDOWN == 25

NIGHT_START_HOUR == 21
NIGHT_END_HOUR == 6

\* AidStationInput: stations at 5 and 10 km, the distance from the previous
\* one absent, 0 or 5 km, no climb or one far beyond the gradient clamp, no
\* cutoff or one after 1 or 2 hours
AidStationInputs ==
    [distance_km : {500, 1000},
     distance_from_prev_km : {None, Some(0), Some(500)},
     elevation_gain_from_prev_m : {None, Some(10000)},
     elevation_loss_from_prev_m : {None},
     cutoff_hours_from_start : {None, Some(1), Some(2)}]

\* the arguments _calculate_terrain_factor is called with directly: gains
\* and losses absent, 0, 200 or 600 m, over -1, 0, 1, 1.1 and 2 km
TerrainArgs ==
    [elevation_gain_from_prev_m : {None, Some(0), Some(200), Some(600)},
     elevation_loss_from_prev_m : {None, Some(0), Some(200), Some(600)},
     segment_distance : {-100, 0, 100, 110, 200}]

RaceStarts == {5 * 3600, 20 * 3600, 23 * 3600}

\* a faulty variant of get_segment_distance below: an explicit distance of 0
\* is taken as absent
get_segment_distance_truthy(st, prev_distance_km) ==
    IF Truthy(st.distance_from_prev_km) THEN st.distance_from_prev_km[1]
    ELSE st.distance_km - prev_distance_km

get_segment_distance(st, prev_distance_km) ==
    IF st.distance_from_prev_km # None THEN st.distance_from_prev_km[1]
    ELSE st.distance_km - prev_distance_km

\* the cost at a gradient n/d, as a fraction: max(1.0, polynomial)
minetti_cost(gradient) ==
    LET n == gradient.num
        d == gradient.den
        cost10 == 1554 * n * n * n * n * n - 304 * n * n * n * n * d
                    - 433 * n * n * n * d * d + 463 * n * n * d * d * d
                    + 195 * n * d * d * d * d + 36 * d * d * d * d * d
        den10 == 10 * d * d * d * d * d
    IN  IF cost10 < den10 THEN Fraction(1, 1) ELSE Fraction(cost10, den10)

\* a faulty variant of calculate_terrain_factor below: the ratio to the flat
\* cost is returned as it is
calculate_terrain_factor_unclamped(st, segment_distance) ==
    IF segment_distance <= 0 THEN Fraction(1, 1)
    ELSE LET elev_gain == IF Truthy(st.elevation_gain_from_prev_m)
                          THEN st.elevation_gain_from_prev_m[1] ELSE 0
             elev_loss == IF Truthy(st.elevation_loss_from_prev_m)
                          THEN st.elevation_loss_from_prev_m[1] ELSE 0
             gradient == Fraction(elev_gain - elev_loss, 10 * segment_distance)
             clamped == IF 2 * gradient.num > gradient.den THEN Fraction(1, 2)
                        ELSE IF 2 * gradient.num < -gradient.den THEN Fraction(-1, 2)
                        ELSE gradient
             cost == minetti_cost(clamped)
         IN  Fraction(10 * cost.num, 36 * cost.den)

\* the terrain factor as a fraction; segment_distance in units of 10 m
calculate_terrain_factor(st, segment_distance) ==
    IF segment_distance <= 0 THEN Fraction(1, 1)
    ELSE LET elev_gain == IF Truthy(st.elevation_gain_from_prev_m)
                          THEN st.elevation_gain_from_prev_m[1] ELSE 0
             elev_loss == IF Truthy(st.elevation_loss_from_prev_m)
                          THEN st.elevation_loss_from_prev_m[1] ELSE 0
             gradient == Fraction(elev_gain - elev_loss, 10 * segment_distance)
             clamped == IF 2 * gradient.num > gradient.den THEN Fraction(1, 2)
                        ELSE IF 2 * gradient.num < -gradient.den THEN Fraction(-1, 2)
                        ELSE gradient
             cost == minetti_cost(clamped)
             ratio == Fraction(10 * cost.num, 36 * cost.den)
         IN  IF ratio.num > 3 * ratio.den THEN Fraction(3, 1)
             ELSE IF 2 * ratio.num < ratio.den THEN Fraction(1, 2)
             ELSE ratio

\* a faulty variant of is_nighttime below: the night ends with hour 6
is_nighttime_until_seven(time) ==
    LET hour == (time \div 3600) % 24
    IN  hour >= NIGHT_START_HOUR \/ hour <= NIGHT_END_HOUR

\* time.hour of a time given in seconds after a midnight
is_nighttime(time) ==
    LET hour == (time \div 3600) % 24
    IN  hour >= NIGHT_START_HOUR \/ hour < NIGHT_END_HOUR

\* the for loop of predict over the stations from the k-th on;
\* cumulative is cumulative_minutes held in seconds.  A result carries its
\* pace and its three factors rounded to two decimals, in hundredths.
RECURSIVE PredictLoop(_, _, _, _, _, _, _, _)
PredictLoop(stations, start_time, total_distance_km, base_pace, k, cumulative, prev_distance_km, results) ==
    IF k > Len(stations) THEN results
    ELSE LET st == stations[k]
             segment_distance == get_segment_distance(st, prev_distance_km)
             terrain_factor == calculate_terrain_factor(st, segment_distance)
             fatigue_factor ==
                 calculate_fatigue_factor(pace_decay, st.distance_km, total_distance_km)
             night == is_nighttime(start_time + cumulative)
             nighttime_factor == IF night THEN 100 + NIGHTTIME_SLOWDOWN ELSE 100
             segment_pace ==
                 (base_pace * terrain_factor.num * fatigue_factor.num * nighttime_factor)
                     \div (terrain_factor.den * fatigue_factor.den * 100000)
             segment_time == (3 * segment_distance * segment_pace) \div 500
             predicted_arrival == cumulative + segment_time
             cutoff == calculate_cutoff_status(st, predicted_arrival)
         IN  PredictLoop(stations, start_time, total_distance_km, base_pace, k + 1,
                         predicted_arrival, st.distance_km,
                         Append(results,
                                [distance_km |-> st.distance_km,
                                 predicted_arrival_minutes |-> RoundDiv(predicted_arrival, 60),
                                 predicted_arrival_time |-> predicted_arrival,
                                 cutoff_hours_from_start |-> st.cutoff_hours_from_start,
                                 cutoff_time |-> cutoff.cutoff_time,
                                 buffer_minutes |->
                                     IF Truthy(cutoff.buffer_s)
                                     THEN Some(RoundDiv(cutoff.buffer_s[1], 60))
                                     ELSE None,
                                 status |-> cutoff.status,
                                 segment_pace_min_km |->
                                     RoundDiv(base_pace * terrain_factor.num
                                                * fatigue_factor.num * nighttime_factor,
                                              terrain_factor.den * fatigue_factor.den
                                                * 100000),
                                 grade_adjusted_pace_min_km |->
                                     RoundDiv(base_pace * terrain_factor.num,
                                              terrain_factor.den),
                                 terrain_factor |->
                                     RoundDiv(100 * terrain_factor.num, terrain_factor.den),
                                 fatigue_factor |->
                                     RoundDiv(fatigue_factor.num, 10 * fatigue_factor.den),
                                 nighttime_factor |-> nighttime_factor,
                                 is_nighttime |-> night]))

\* the caller adds one more station to the list, not before the previous one
AddRaceStation(st) ==
    /\ race_result = NotCalled
    /\ tfresult = NotCalled
    /\ Len(race_stations) < MaxRaceStations
    /\ race_stations # << >> =>
           race_stations[Len(race_stations)].distance_km <= st.distance_km
    /\ race_stations' = Append(race_stations, st)
    /\ UNCHANGED <<race_start, race_base_pace, race_total_km, race_result,
                   terrain_args, tfresult, notRaceVars>>

\* predictor.predict(race_stations, start_time, total_distance_km, base_pace_min_km)
RacePlanPredictor_predict(start_time, total_distance_km, base_pace_min_km) ==
    /\ race_result = NotCalled
    /\ tfresult = NotCalled
    /\ race_start' = start_time
    /\ race_total_km' = total_distance_km
    /\ race_base_pace' = base_pace_min_km
    /\ LET base_pace == IF Truthy(base_pace_min_km) THEN base_pace_min_km[1]
                        ELSE FLAT_PACE
       IN  race_result' = Returned(PredictLoop(race_stations, start_time, total_distance_km,
                                               base_pace, 1, 0, 0, << >>))
    /\ UNCHANGED <<race_stations, terrain_args, tfresult, notRaceVars>>

\* predictor._calculate_terrain_factor(station, segment_distance)
RacePlanPredictor_calculate_terrain_factor(args) ==
    /\ tfresult = NotCalled
    /\ race_result = NotCalled
    /\ race_stations = << >>
    /\ terrain_args' = args
    /\ tfresult' = Returned(calculate_terrain_factor(args, args.segment_distance))
    /\ UNCHANGED <<race_stations, race_start, race_base_pace, race_total_km,
                   race_result, notRaceVars>>

---------------------------------------------------------------------------
(* GPXCourseAnalyzer.analyze_aid_stations *)

\* A course point holds its distance from the start in metres and its
\* smoothed elevation in metres.  The course runs along a meridian, so a
\* coordinate pair is held as the distance along the course of the place it
\* names (lat) and the offset from the meridian (lon, always 0).  An
\* aid-station dict is a record of optional entries.  Indices count from 0
\* as in the code.

\* most aid stations in a list
MaxAidStations == 2

\* an analyzer without points, and one of four points 1 km apart
Courses ==
    { << >>,
      << [distance_from_start_m |-> 0,    elevation |-> 100],
         [distance_from_start_m |-> 1000, elevation |-> 150],
         [distance_from_start_m |-> 2000, elevation |-> 120],
         [distance_from_start_m |-> 3000, elevation |-> 120] >> }

AidStationDicts ==
    [name : {None, Some("A")},
     lat : {None, Some(1100)},
     lon : {None, Some(0)},
     distanceKm : {None, Some(2600)}]

\* the first point nearest to a position along the course; find_closest_point
\* and _find_point_at_distance both keep the first of the nearest points
NearestFrom(pts, target_m, i, closest_idx) ==
    LET better == { j \in i..Len(pts) - 1 :
                      Abs(pts[j + 1].distance_from_start_m - target_m)
                          < Abs(pts[closest_idx + 1].distance_from_start_m - target_m) }
    IN  IF better = {} THEN closest_idx
        ELSE CHOOSE j \in better :
                 \A k \in better :
                     \/ Abs(pts[j + 1].distance_from_start_m - target_m)
                            < Abs(pts[k + 1].distance_from_start_m - target_m)
                     \/ /\ Abs(pts[j + 1].distance_from_start_m - target_m)
                               = Abs(pts[k + 1].distance_from_start_m - target_m)
                        /\ j <= k

\* _calculate_elevation_change: (gain, loss) over the points after start_idx
\* up to end_idx
calculate_elevation_change(pts, start_idx, end_idx) ==
    IF start_idx >= end_idx \/ end_idx >= Len(pts) THEN [gain |-> 0, loss |-> 0]
    ELSE LET diff(i) == pts[i + 1].elevation - pts[i].elevation
         IN  [gain |-> Sum([k \in 1..(end_idx - start_idx) |->
                               Max(diff(start_idx + k), 0)]),
              loss |-> Sum([k \in 1..(end_idx - start_idx) |->
                               Max(-diff(start_idx + k), 0)])]

\* has the station the entries that say where it is
HasLatLon(st) == st.lat # None /\ st.lon # None
HasPosition(st) == HasLatLon(st) \/ st.distanceKm # None

\* the loop of analyze_aid_stations from station i on
RECURSIVE AidStationLoop(_, _, _, _, _)
AidStationLoop(pts, stations, i, prev, results) ==
    IF i > Len(stations) THEN Returned(results)
    ELSE LET st == stations[i]
             name == IF st.name = None THEN "Unknown" ELSE st.name[1]
         IN  IF ~HasPosition(st)
             THEN AidStationLoop(pts, stations, i + 1, prev, results)
             ELSE IF pts = << >>
             THEN IF HasLatLon(st) THEN Raised("ValueError: No points in course")
                  ELSE Raised("IndexError")
             ELSE LET idx == NearestFrom(pts, IF HasLatLon(st) THEN st.lat[1]
                                              ELSE st.distanceKm[1], 0, 0)
                      point == pts[idx + 1]
                      distance_m == point.distance_from_start_m
                      from_prev_m == distance_m - prev.distance_m
                      change == calculate_elevation_change(pts, prev.idx, idx)
                      analysis ==
                          [name |-> name,
                           distance_km |-> RoundKm2(distance_m),
                           elevation_m |-> point.elevation,
                           distance_from_prev_km |-> RoundKm2(from_prev_m),
                           elevation_gain_from_prev_m |-> change.gain,
                           elevation_loss_from_prev_m |-> change.loss,
                           avg_gradient_percent |->
                               IF from_prev_m > 0
                               THEN RoundDiv(1000 * (point.elevation - prev.elevation),
                                             from_prev_m)
                               ELSE 0]
                  IN  AidStationLoop(pts, stations, i + 1,
                                     [idx |-> idx, elevation |-> point.elevation,
                                      distance_m |-> distance_m],
                                     Append(results, analysis))

analyze_aid_stations(pts, stations) ==
    AidStationLoop(pts, stations, 1,
                   [idx |-> 0,
                    elevation |-> IF pts = << >> THEN 0 ELSE pts[1].elevation,
                    distance_m |-> 0],
                   << >>)

\* the caller puts one more station into the list
AddAidStation(st) ==
    /\ asresult = NotCalled
    /\ Len(aid_stations) < MaxAidStations
    /\ aid_stations' = Append(aid_stations, st)
    /\ UNCHANGED <<course_points, asresult, notCourseVars>>

GPXCourseAnalyzer_analyze_aid_stations ==
    /\ asresult = NotCalled
    /\ asresult' = analyze_aid_stations(course_points, aid_stations)
    /\ UNCHANGED <<course_points, aid_stations, notCourseVars>>

---------------------------------------------------------------------------
(* Specifications *)

\* the parts of the state before anything was constructed or called
AnalyzerIdle ==
    /\ class = "none"
    /\ trksegs = 0
    /\ points = << >>
    /\ constructed = FALSE
    /\ tresult = NotCalled
    /\ tpasses = NoPasses
    /\ segments = << >>
    /\ fresult = NotCalled
    /\ calls = << >>

PassIdle ==
    /\ segs_arg = << >>
    /\ mresult = NotCalled
    /\ sresult = NotCalled

AggregatorIdle ==
    /\ analyses = << >>
    /\ recency_weights = << >>
    /\ aresult = NotCalled

CutoffIdle ==
    /\ station = [cutoff_hours_from_start |-> None]
    /\ arrival_s = 0
    /\ cresult = NotCalled

SmoothIdle ==
    /\ raw_elevations = << >>
    /\ smoothed_elevations = NotCalled
    /\ kresult = NotCalled

FinishIdle ==
    /\ predictions = << >>
    /\ finish_total_km = 0
    /\ finresult = NotCalled

FatigueIdle ==
    /\ pace_decay = << >>
    /\ fatigue_args = [distance_km |-> 0, total_distance_km |-> 0]
    /\ ffresult = NotCalled

CourseIdle ==
    /\ course_points = << >>
    /\ aid_stations = << >>
    /\ asresult = NotCalled

RaceIdle ==
    /\ race_stations = << >>
    /\ race_start = 0
    /\ race_base_pace = None
    /\ race_total_km = 0
    /\ race_result = NotCalled
    /\ terrain_args = << >>
    /\ tfresult = NotCalled

TaskIdle ==
    /\ task_failed = {}
    /\ task_result = NotCalled

Init ==
    /\ AnalyzerIdle
    /\ PassIdle
    /\ AggregatorIdle
    /\ CutoffIdle
    /\ SmoothIdle
    /\ FinishIdle
    /\ FatigueIdle
    /\ CourseIdle
    /\ RaceIdle
    /\ TaskIdle

Next ==
    \/ \E c \in AnalyzerClasses : Parse(c)
    \/ \E kind \in TrkSegKinds(class) : ExtractTrkSeg(kind)
    \/ Construct
    \/ TerrainSegmentAnalyzer_analyze
    \/ ActivityPerformanceAnalyzer_analyze

\* the two analyzers over one point series
Spec == Init /\ [][Next]_vars

\* a constructed terrain analyzer and a segment list for its passes
InitPasses ==
    /\ class = "TerrainSegmentAnalyzer"
    /\ \E kinds \in PassTracks :
           /\ trksegs = Len(kinds)
           /\ points = Track(kinds, Len(kinds))
    /\ constructed = TRUE
    /\ tresult = NotCalled
    /\ tpasses = NoPasses
    /\ segments = << >>
    /\ fresult = NotCalled
    /\ calls = << >>
    /\ segs_arg \in ContiguousLists(points, 0, MaxRawSegs)
    /\ mresult = NotCalled
    /\ sresult = NotCalled
    /\ AggregatorIdle
    /\ CutoffIdle
    /\ SmoothIdle
    /\ FinishIdle
    /\ FatigueIdle
    /\ CourseIdle
    /\ RaceIdle
    /\ TaskIdle

NextPasses ==
    \/ merge_short_segments_call
    \/ split_long_flat_descent_segments_call

\* the merge pass and the split pass, each on any contiguous segment list
SpecPasses == InitPasses /\ [][NextPasses]_vars

NextAggregator ==
    \/ \E analysis \in Activities, weight \in RecencyWeights :
           AddActivity(analysis, weight)
    \/ \E recency \in {None, Some(recency_weights)} :
           aggregate_performance_profiles(recency)
    \/ \E failed \in SUBSET (1..Len(analyses)) :
           calculate_performance_profile(failed)

\* a caller collecting activity results and aggregating them
SpecAggregator == Init /\ [][NextAggregator]_vars

\* a station and a predicted arrival at it
InitCutoff ==
    /\ AnalyzerIdle
    /\ PassIdle
    /\ AggregatorIdle
    /\ station \in Stations
    /\ arrival_s \in Arrivals
    /\ cresult = NotCalled
    /\ SmoothIdle
    /\ FinishIdle
    /\ FatigueIdle
    /\ CourseIdle
    /\ RaceIdle
    /\ TaskIdle

NextCutoff == RacePlanPredictor_calculate_cutoff_status

\* the cutoff evaluation of one station
SpecCutoff == InitCutoff /\ [][NextCutoff]_vars

NextSmoothing ==
    \/ \E elevation \in (IF raw_elevations = << >> THEN FirstElevations
                         ELSE { raw_elevations[Len(raw_elevations)] + d : d \in ElevationSteps }) :
           ReadElevation(elevation)
    \/ \E c \in SmoothingClasses : SmoothElevations(c)
    \/ kalman_smooth_elevation_call

\* the elevations of a point series, read and then smoothed
SpecSmoothing == Init /\ [][NextSmoothing]_vars

NextFinish ==
    \/ \E prediction \in PredictionResults : AppendPrediction(prediction)
    \/ \E total_distance_km \in TotalDistances :
           RacePlanPredictor_predict_finish(total_distance_km)

\* the predictions of a race and the finish worked out from them
SpecFinish == Init /\ [][NextFinish]_vars

\* a performance profile with a pace-decay map, and a station on a course
InitFatigue ==
    /\ AnalyzerIdle
    /\ PassIdle
    /\ AggregatorIdle
    /\ CutoffIdle
    /\ SmoothIdle
    /\ FinishIdle
    /\ pace_decay \in PaceDecayMaps
    /\ fatigue_args \in FatigueArgs
    /\ ffresult = NotCalled
    /\ CourseIdle
    /\ RaceIdle
    /\ TaskIdle

NextFatigue == RacePlanPredictor_calculate_fatigue_factor

\* the fatigue factor of one station
SpecFatigue == InitFatigue /\ [][NextFatigue]_vars

\* a course analyzer, with or without points
InitCourse ==
    /\ AnalyzerIdle
    /\ PassIdle
    /\ AggregatorIdle
    /\ CutoffIdle
    /\ SmoothIdle
    /\ FinishIdle
    /\ FatigueIdle
    /\ course_points \in Courses
    /\ aid_stations = << >>
    /\ asresult = NotCalled
    /\ RaceIdle
    /\ TaskIdle

NextCourse ==
    \/ \E st \in AidStationDicts : AddAidStation(st)
    \/ GPXCourseAnalyzer_analyze_aid_stations

\* the aid stations of a course, listed and then analysed
SpecCourse == InitCourse /\ [][NextCourse]_vars

NextRace ==
    \/ \E st \in AidStationInputs : AddRaceStation(st)
    \/ \E start_time \in RaceStarts, total_distance_km \in {0, 1000},
          base_pace_min_km \in {None, Some(600)} :
           RacePlanPredictor_predict(start_time, total_distance_km, base_pace_min_km)
    \/ \E args \in TerrainArgs : RacePlanPredictor_calculate_terrain_factor(args)

\* predict on any list of stations, and the terrain factor on its own
SpecRace == Init /\ [][NextRace]_vars

---------------------------------------------------------------------------
(* Properties *)

\* C1: for a series of at least 10 points with positive total distance, the
\* segments analyze() of the terrain analyzer returns partition
\* [0, total distance] in output order: the first starts at 0, each one
\* starts where the one before it ends, the last ends at the total distance.
C1_SegmentsPartitionDistance ==
    (tresult.outcome = "returned" /\ points[Len(points)].distance_m > 0) =>
        LET segs == tresult.value.segments
        IN  /\ Len(segs) >= 1
            /\ segs[1].start_distance_km = 0
            /\ \A i \in 1..(Len(segs) - 1) :
                   segs[i + 1].start_distance_km = segs[i].end_distance_km
            /\ segs[Len(segs)].end_distance_km = tresult.value.total_distance_km

\* a result in which the merge pass joined segments and the split pass cut
\* one, and which still holds several segments
C1_Witness ==
    /\ tresult.outcome = "returned"
    /\ Len(tpasses.merged) < Len(tpasses.raw)
    /\ Len(tpasses.final) > Len(tpasses.merged)
    /\ Len(tresult.value.segments) >= 3

\* the tolerance the repository's own test of the split pass allows over the
\* 5 km limit (it asserts distance_km <= 5.5)
SPLIT_TOLERANCE_M == 500

\* C2: after the split pass every flat or descent segment is at most 5.0 km
\* long (plus a small tolerance), for every point series, series of far-apart
\* points included.
C2_FlatDescentAtMostFiveKm ==
    tresult.outcome = "returned" =>
        \A j \in 1..Len(tpasses.final) :
            tpasses.final[j].terrain_type # "climb" =>
                SegLengthM(points, tpasses.final[j])
                    <= MAX_SEGMENT_LENGTH_M + SPLIT_TOLERANCE_M

\* C3: the split pass never cuts a climb: every climb segment of its argument
\* is in its output exactly once, with the same start and end index, whatever
\* its length.
C3_ClimbsNeverSplit ==
    sresult.outcome = "returned" =>
        \A i \in 1..Len(segs_arg) :
            segs_arg[i].terrain_type = "climb" =>
                Cardinality({ j \in 1..Len(sresult.value) :
                                sresult.value[j] = segs_arg[i] }) = 1

\* the split pass has run on a list that holds a climb longer than 5 km and a
\* flat or descent segment it did cut
C3_Witness ==
    /\ sresult.outcome = "returned"
    /\ Len(sresult.value) > Len(segs_arg)
    /\ \E i \in 1..Len(segs_arg) :
           /\ segs_arg[i].terrain_type = "climb"
           /\ SegLengthM(points, segs_arg[i]) > MAX_SEGMENT_LENGTH_M

\* C4: after the merge pass over a list of contiguous raw segments, no
\* segment of the result is shorter than 0.3 km unless the result is exactly
\* one segment.
C4_NoShortSegmentAfterMerge ==
    mresult.outcome = "returned" =>
        \/ Len(mresult.value) = 1
        \/ \A j \in 1..Len(mresult.value) :
               SegLengthM(points, mresult.value[j]) >= MIN_SEGMENT_LENGTH_M

\* the merge pass has joined a short last segment into the one before it and
\* returned more than one segment
C4_Witness ==
    /\ mresult.outcome = "returned"
    /\ Len(segs_arg) = 3
    /\ Len(mresult.value) = 2
    /\ SegLengthM(points, segs_arg[1]) >= MIN_SEGMENT_LENGTH_M
    /\ SegLengthM(points, segs_arg[2]) >= MIN_SEGMENT_LENGTH_M
    /\ SegLengthM(points, segs_arg[3]) < MIN_SEGMENT_LENGTH_M

\* C5: analyze() of either analyzer on fewer than 10 points raises the
\* not-enough-points error and leaves nothing behind (no result, no segment
\* list); on 10 points or more it does not raise.
C5_TooFewPointsRaises ==
    /\ tresult.outcome # "not_called" =>
           IF Len(points) < 10
           THEN /\ tresult = Raised("ValueError: Not enough points for analysis")
                /\ tpasses = NoPasses
           ELSE tresult.outcome = "returned"
    /\ fresult.outcome # "not_called" =>
           IF Len(points) < 10
           THEN /\ fresult = Raised("ValueError: Not enough points for analysis")
                /\ segments = << >>
           ELSE fresult.outcome = "returned"

\* the fixed-segment analyzer has been given nine points and has raised
C5_Witness ==
    /\ Len(points) = 9
    /\ fresult.outcome = "raised"

\* the pace a profile gives for a gradient bucket
BucketPace(profile, gradient) ==
    CASE gradient = "flat" -> profile.flat_pace_min_km
      [] gradient = "gentle_uphill" -> profile.gentle_uphill_pace_min_km
      [] gradient = "uphill" -> profile.uphill_pace_min_km
      [] gradient = "steep_uphill" -> profile.steep_uphill_pace_min_km
      [] gradient = "gentle_downhill" -> profile.gentle_downhill_pace_min_km
      [] gradient = "downhill" -> profile.downhill_pace_min_km
      [] gradient = "steep_downhill" -> profile.steep_downhill_pace_min_km

\* the weights of the last call, and over the activities that report a pace
\* for the bucket: the sum of pace * weight and the sum of the weights
UsedWeights == DefaultWeights(analyses, aresult.value.recency_weights)

Reports(i, gradient) == analyses[i].pace_by_gradient[gradient] # None

WeightedPaceSum(gradient) ==
    SumFrom([i \in 1..Len(analyses) |->
                IF Reports(i, gradient)
                THEN analyses[i].pace_by_gradient[gradient][1] * UsedWeights[i]
                ELSE 0], 1)

ReportingWeight(gradient) ==
    SumFrom([i \in 1..Len(analyses) |->
                IF Reports(i, gradient) THEN UsedWeights[i] ELSE 0], 1)

\* C6 as stated: for every gradient bucket the profile holds exactly the
\* recency-weighted mean of the bucket's pace over the activities that report
\* one (two activities with values a, b and weights [3, 1] give (3a + b) / 4).
C6_ExactWeightedMean ==
    aresult.outcome = "returned" =>
        \A gradient \in GradientCategory :
            ReportingWeight(gradient) > 0 =>
                BucketPace(aresult.value.profile, gradient) * ReportingWeight(gradient)
                    = WeightedPaceSum(gradient)

\* C6, amended: for every gradient bucket the profile holds the
\* recency-weighted mean of the bucket's pace over exactly the activities
\* that report one, rounded to two decimals (it is within half a hundredth
\* of the mean), and 0.0 for a bucket that no activity reports.
C6_RoundedWeightedMean ==
    aresult.outcome = "returned" =>
        \A gradient \in GradientCategory :
            IF ReportingWeight(gradient) = 0
            THEN BucketPace(aresult.value.profile, gradient) = 0
            ELSE 2 * Abs(BucketPace(aresult.value.profile, gradient)
                             * ReportingWeight(gradient)
                         - WeightedPaceSum(gradient))
                     <= ReportingWeight(gradient)

\* two activities aggregated with weights [3, 1]; both report a flat pace,
\* only the second reports the sloping buckets
C6_Witness ==
    /\ aresult.outcome = "returned"
    /\ aresult.value.recency_weights = Some(<<3, 1>>)
    /\ Reports(1, "flat") /\ Reports(2, "flat")
    /\ ~Reports(1, "uphill") /\ Reports(2, "uphill")

\* C7 as stated: the profile of a single activity holds that activity's own
\* grade-adjusted pace and, for every bucket, its own pace.
C7_SingleActivityReproduced ==
    (aresult.outcome = "returned" /\ Len(analyses) = 1) =>
        /\ aresult.value.profile.overall_gap_min_km
               = analyses[1].grade_adjusted_pace_min_km
        /\ \A gradient \in GradientCategory :
               Some(BucketPace(aresult.value.profile, gradient))
                   = analyses[1].pace_by_gradient[gradient]

\* C7, amended: the profile of a single activity, whatever its weight, holds
\* exactly that activity's grade-adjusted pace and its pace for every bucket
\* it reports; a bucket it does not report comes out as 0.0.
C7_SingleActivityReportedValues ==
    (aresult.outcome = "returned" /\ Len(analyses) = 1) =>
        /\ aresult.value.profile.overall_gap_min_km
               = analyses[1].grade_adjusted_pace_min_km
        /\ \A gradient \in GradientCategory :
               BucketPace(aresult.value.profile, gradient)
                   = IF Reports(1, gradient)
                     THEN analyses[1].pace_by_gradient[gradient][1]
                     ELSE 0

\* one activity with weight 3 that reports a flat pace and no other
C7_Witness ==
    /\ aresult.outcome = "returned"
    /\ Len(analyses) = 1
    /\ aresult.value.recency_weights = Some(<<3>>)
    /\ Reports(1, "flat")
    /\ ~Reports(1, "uphill")

\* C8: aggregate_performance_profiles called with an empty activity list
\* raises the no-analyses error and returns no profile (and it raises for no
\* other list).
C8_EmptyListRaises ==
    aresult.outcome # "not_called" =>
        IF analyses = << >>
        THEN aresult = Raised("ValueError: No analyses provided")
        ELSE aresult.outcome = "returned"

\* the aggregator has been called with an empty list
C8_Witness ==
    /\ analyses = << >>
    /\ aresult.outcome = "raised"

\* C9: for a station that has a cutoff, the status follows from the buffer
\* (cutoff time minus predicted arrival): missed below 0, danger from 0 to
\* below 15 minutes, warning from 15 to below 30, safe from 30 on.
C9_StatusFromBuffer ==
    (cresult.outcome = "returned" /\ station.cutoff_hours_from_start # None) =>
        cresult.value.status
            = StatusOfBuffer(3600 * station.cutoff_hours_from_start[1] - arrival_s)

\* C10: a station whose cutoff is present, 0 hours included, gets a cutoff
\* time, a buffer and the status of that buffer; only a station without a
\* cutoff gets status safe with no cutoff time and no buffer.
C10_PresentCutoffEvaluated ==
    cresult.outcome = "returned" =>
        IF station.cutoff_hours_from_start = None
        THEN cresult.value = [cutoff_time |-> None, buffer_s |-> None,
                              status |-> "safe"]
        ELSE /\ cresult.value.cutoff_time
                    = Some(3600 * station.cutoff_hours_from_start[1])
             /\ cresult.value.buffer_s
                    = Some(3600 * station.cutoff_hours_from_start[1] - arrival_s)
             /\ cresult.value.status = StatusOfBuffer(cresult.value.buffer_s[1])

\* C11: whatever the number of points read (0 to 5, where smoothing is
\* bypassed, or 6 and more, where it is applied), the smoothed series that
\* _extract_points builds has as many entries as the raw series.
C11_SmoothedLengthEqualsRaw ==
    smoothed_elevations.outcome = "returned" =>
        Len(smoothed_elevations.value.smoothed) = Len(raw_elevations)

\* smoothing was bypassed for a 5-point series and applied to a 6-point one
\* whose estimate moved away from the raw value
C11_Witness ==
    /\ smoothed_elevations.outcome = "returned"
    /\ Len(raw_elevations) = 6
    /\ smoothed_elevations.value.smoothed # raw_elevations
    /\ smoothed_elevations.value.class = "GPXCourseAnalyzer"

StrictlyIncreasing(seq) == \A i \in 1..Len(seq) - 1 : seq[i] < seq[i + 1]
StrictlyDecreasing(seq) == \A i \in 1..Len(seq) - 1 : seq[i] > seq[i + 1]
NonDecreasing(seq) == \A i \in 1..Len(seq) - 1 : seq[i] <= seq[i + 1]
NonIncreasing(seq) == \A i \in 1..Len(seq) - 1 : seq[i] >= seq[i + 1]

\* C12: for a strictly increasing (strictly decreasing) input of at least two
\* elevations the smoother's output never falls (never rises) from one index
\* to the next, and its first element is the first input element.
C12_MonotonicInputKeepsDirection ==
    (kresult.outcome = "returned" /\ Len(raw_elevations) >= 2) =>
        /\ StrictlyIncreasing(raw_elevations) =>
               /\ NonDecreasing(kresult.value)
               /\ kresult.value[1] = raw_elevations[1]
        /\ StrictlyDecreasing(raw_elevations) =>
               /\ NonIncreasing(kresult.value)
               /\ kresult.value[1] = raw_elevations[1]

\* a strictly increasing series of 4 elevations was smoothed and its
\* estimate rose
C12_Witness ==
    /\ kresult.outcome = "returned"
    /\ Len(raw_elevations) = 4
    /\ StrictlyIncreasing(raw_elevations)
    /\ kresult.value[4] > kresult.value[1]

\* C13: on a non-empty prediction list predict_finish returns the last
\* station's arrival as the finish when that station is within 0.5 km of the
\* total distance, and otherwise the last station's arrival plus (total
\* distance - last station distance) times the last station's segment pace.
\* As stated: the sum itself is returned, counted from the station's arrival.
C13_FinishIsArrivalPlusRemaining ==
    (finresult.outcome = "returned" /\ predictions # << >>) =>
        LET last == predictions[Len(predictions)]
            extra == (finish_total_km - last.distance_km) * last.segment_pace_min_km
        IN  IF Abs(last.distance_km - finish_total_km) < FINISH_WITHIN
            THEN /\ finresult.value.predicted_finish_time = last.predicted_arrival_time
                 /\ finresult.value.predicted_total_minutes = last.predicted_arrival_minutes
            ELSE /\ finresult.value.predicted_finish_time =
                        last.predicted_arrival_time + extra
                 /\ finresult.value.predicted_total_minutes * TicksPerMinute =
                        last.predicted_arrival_minutes * TicksPerMinute + extra

\* C13, as the code has it: within 0.5 km (strictly) the last station's
\* arrival time and whole-minute arrival are returned; otherwise the finish
\* time is the station's whole-minute arrival plus (total distance - station
\* distance) times its segment pace, and the total is that sum rounded to a
\* whole minute.
C13_FinishFromWholeMinuteArrival ==
    (finresult.outcome = "returned" /\ predictions # << >>) =>
        LET last == predictions[Len(predictions)]
            extra == (finish_total_km - last.distance_km) * last.segment_pace_min_km
            sum == last.predicted_arrival_minutes * TicksPerMinute + extra
        IN  IF Abs(last.distance_km - finish_total_km) < FINISH_WITHIN
            THEN /\ finresult.value.predicted_finish_time = last.predicted_arrival_time
                 /\ finresult.value.predicted_total_minutes = last.predicted_arrival_minutes
            ELSE /\ finresult.value.predicted_finish_time = sum
                 /\ 2 * Abs(finresult.value.predicted_total_minutes * TicksPerMinute - sum)
                        <= TicksPerMinute

\* the finish was extrapolated from a second station 0.6 km before the
\* finish that was reached 60.4 minutes after the start
C13_Witness ==
    /\ finresult.outcome = "returned"
    /\ Len(predictions) = 2
    /\ predictions[2].distance_km = 940
    /\ predictions[2].predicted_arrival_time = 604000
    /\ finresult.value.predicted_finish_time > 604000

\* C14: with a non-empty pace-decay map and a progress p (in percent of a
\* course of positive length), the lookup returns the multiplier of bucket
\* floor(p/10) when that bucket is known; otherwise the linear interpolation
\* between the nearest known buckets below and above p (by lower bound) when
\* p lies between known buckets, and the multiplier of the nearest known
\* bucket when p lies below the lowest or above the highest known one; so
\* the result lies between the smallest and the largest known multiplier.
C14_FatigueLookup ==
    (/\ ffresult.outcome = "returned"
     /\ DOMAIN pace_decay # {}
     /\ fatigue_args.total_distance_km > 0) =>
        LET known == DOMAIN pace_decay
            total == fatigue_args.total_distance_km
            p100 == 100 * fatigue_args.distance_km   \* p * total
            own == 10 * ((10 * fatigue_args.distance_km) \div total)
            below == { b \in known : b * total <= p100 }
            above == { b \in known : b * total > p100 }
            lo == CHOOSE b \in below : \A c \in below : c <= b
            hi == CHOOSE b \in above : \A c \in above : b <= c
            num == ffresult.value.num
            den == ffresult.value.den
        IN  /\ IF own \in known THEN ffresult.value = Fraction(pace_decay[own], 1)
               ELSE IF below = {} THEN ffresult.value = Fraction(pace_decay[hi], 1)
               ELSE IF above = {} THEN ffresult.value = Fraction(pace_decay[lo], 1)
               ELSE ffresult.value =
                        Fraction(pace_decay[lo] * (hi - lo) * total
                                 + (p100 - lo * total) * (pace_decay[hi] - pace_decay[lo]),
                                 (hi - lo) * total)
            /\ \E b \in known : pace_decay[b] * den <= num
            /\ \E b \in known : pace_decay[b] * den >= num

\* C15: analyze_aid_stations given a station that has neither lat and lon
\* nor distanceKm aborts with an error and returns nothing; it never returns
\* a list, let alone one that leaves that station out.
C15_StationWithoutPositionRaises ==
    (/\ asresult # NotCalled
     /\ \E i \in 1..Len(aid_stations) : ~HasPosition(aid_stations[i])) =>
        asresult.outcome = "raised"

C17_MergeAbsorbsShortSegments ==
    mresult.outcome = "returned" =>
        LET segs == segs_arg
            res == mresult.value
            n == Len(segs)
            Span(a, b) == points[segs[b].end_idx + 1].distance_m
                            - points[segs[a].start_idx + 1].distance_m
            First(j) == CHOOSE a \in 1..n : segs[a].start_idx = res[j].start_idx
            Last(j) == CHOOSE b \in 1..n : segs[b].end_idx = res[j].end_idx
            Absorbing(a, b) ==
                CHOOSE k \in a..b :
                    /\ Span(a, k) >= MIN_SEGMENT_LENGTH_M \/ k = b
                    /\ \A h \in a..(k - 1) : Span(a, h) < MIN_SEGMENT_LENGTH_M
        IN  /\ (n = 0) <=> (res = << >>)
            /\ n > 0 =>
                  /\ res[1].start_idx = segs[1].start_idx
                  /\ res[Len(res)].end_idx = segs[n].end_idx
                  /\ \A j \in 1..(Len(res) - 1) : res[j].end_idx = res[j + 1].start_idx
                  /\ \A j \in 1..Len(res) :
                        /\ \E a \in 1..n : segs[a].start_idx = res[j].start_idx
                        /\ \E b \in 1..n : segs[b].end_idx = res[j].end_idx
                        /\ First(j) <= Last(j)
                        /\ LET a == First(j)
                               b == Last(j)
                               k == Absorbing(a, b)
                           IN  /\ res[j].terrain_type = segs[k].terrain_type
                               /\ k < b => /\ b = n
                                           /\ j = Len(res)
                                           /\ Span(k + 1, n) < MIN_SEGMENT_LENGTH_M
                               /\ Span(a, b) < MIN_SEGMENT_LENGTH_M => Len(res) = 1

\* the merge pass met a short segment with a follower and a short last
\* segment behind a kept one, on three segments of three terrain types
C17_Witness ==
    /\ mresult.outcome = "returned"
    /\ Len(segs_arg) = 3
    /\ SegLengthM(points, segs_arg[1]) < MIN_SEGMENT_LENGTH_M
    /\ SegLengthM(points, segs_arg[2]) >= MIN_SEGMENT_LENGTH_M
    /\ SegLengthM(points, segs_arg[3]) < MIN_SEGMENT_LENGTH_M
    /\ Cardinality({segs_arg[i].terrain_type : i \in 1..3}) = 3
    /\ mresult.value = <<RawSegment(segs_arg[1].start_idx, segs_arg[3].end_idx,
                                    segs_arg[2].terrain_type)>>

\* C18: in the raw segment list of terrain detection, any two consecutive
\* segments have different terrain types, each segment ends at a higher
\* index than it starts at and where the next one starts, and the last
\* segment ends at the last point. Each inner boundary is the start point of
\* a 200 m window (counted from distance 0) whose terrain type is that of the
\* segment it opens, and no window between the start of the segment it
\* closes and that window has another type than the closed segment.
C18_RawSegmentsAlternateAndAbut ==
    LET raw == tpasses.raw
        total_distance == points[Len(points)].distance_m
        WindowStart(w) == find_point_at_distance(points, w)
        WindowEnd(w) ==
            find_point_at_distance(points, Min(w + window_size_m, total_distance))
        Metrics(w) == calculate_segment_metrics(points, WindowStart(w), WindowEnd(w))
        Typed(w) == w < total_distance /\ WindowStart(w) < WindowEnd(w) /\ Metrics(w) # None
        Terrain(w) == Metrics(w)[1].terrain_type
    IN  /\ \A j \in 1..Len(raw) : raw[j].start_idx < raw[j].end_idx
        /\ raw # << >> => raw[Len(raw)].end_idx = Len(points) - 1
        /\ \A j \in 1..(Len(raw) - 1) :
              /\ raw[j].terrain_type # raw[j + 1].terrain_type
              /\ raw[j].end_idx = raw[j + 1].start_idx
              /\ \E w \in WindowStarts(points) :
                    /\ Typed(w)
                    /\ WindowStart(w) = raw[j].end_idx
                    /\ Terrain(w) = raw[j + 1].terrain_type
                    /\ \A v \in WindowStarts(points) :
                          (v < w /\ Typed(v) /\ WindowStart(v) >= raw[j].start_idx)
                              => Terrain(v) = raw[j].terrain_type

\* detection has found three raw segments
C18_Witness ==
    /\ tresult.outcome = "returned"
    /\ Len(tpasses.raw) >= 3

\* b is the point at which a fixed segment that starts at point a is closed:
\* the first point 1000 m or more beyond a, the final point when there is
\* none (points counted from 0)
ClosesAt(pts, a, b) ==
    /\ a < b
    /\ b <= Len(pts) - 1
    /\ pts[b + 1].distance_m - pts[a + 1].distance_m >= SEGMENT_LENGTH_M \/ b = Len(pts) - 1
    /\ \A h \in (a + 1)..(b - 1) :
           pts[h + 1].distance_m - pts[a + 1].distance_m < SEGMENT_LENGTH_M

\* the points at which fixed segments start: the first point, and every point
\* at which a segment is closed, whether that segment is kept or dropped
\* the point at which the candidate segment starting at point a is closed
CloseOf(pts, a) == CHOOSE b \in (a + 1)..(Len(pts) - 1) : ClosesAt(pts, a, b)

RECURSIVE SegmentStartsFrom(_, _)
SegmentStartsFrom(pts, a) ==
    IF a >= Len(pts) - 1 THEN {a}
    ELSE {a} \cup SegmentStartsFrom(pts, CloseOf(pts, a))

SegmentStarts(pts) == SegmentStartsFrom(pts, 0)

\* C19: every segment the fixed-segment analyzer emits runs from a segment
\* start to the first point 1000 m or more beyond it, or to the final point;
\* the emitted segments are in track order and do not overlap, and one that
\* does not end at the final point spans at least 1000 m.
C19_FixedSegmentsCloseAtOneKm ==
    fresult.outcome = "returned" =>
        LET n == Len(points)
            last_km == RoundKm2(points[n].distance_m)
            starts == SegmentStarts(points) \ {n - 1}
        IN  /\ \A j \in 1..Len(segments) :
                  /\ \E a \in starts :
                         segments[j] = SegmentMetrics(points[a + 1],
                                                      points[CloseOf(points, a) + 1])
                  /\ segments[j].start_distance_km <= segments[j].end_distance_km
                  /\ segments[j].end_distance_km # last_km =>
                         segments[j].distance_km >= RoundKm2(SEGMENT_LENGTH_M)
            /\ \A j \in 1..(Len(segments) - 1) :
                  segments[j].end_distance_km <= segments[j + 1].start_distance_km

\* analyze() emitted three segments or more, the last one shorter than
\* 1000 m and closed at the final point
C19_Witness ==
    /\ fresult.outcome = "returned"
    /\ Len(segments) >= 3
    /\ segments[Len(segments) - 1].distance_km >= RoundKm2(SEGMENT_LENGTH_M)
    /\ segments[Len(segments)].distance_km < RoundKm2(SEGMENT_LENGTH_M)
    /\ segments[Len(segments)].end_distance_km = RoundKm2(points[Len(points)].distance_m)

\* the candidate from a to b has a timestamp on both endpoints, a positive
\* elapsed time and a positive distance
Keepable(pts, a, b) ==
    /\ pts[a + 1].time # NoTime
    /\ pts[b + 1].time # NoTime
    /\ pts[b + 1].time - pts[a + 1].time > 0
    /\ pts[b + 1].distance_m - pts[a + 1].distance_m > 0

\* the starts of the candidates that are to be kept
KeptStarts(pts) ==
    { a \in SegmentStarts(pts) \ {Len(pts) - 1} : Keepable(pts, a, CloseOf(pts, a)) }

\* analyze() on 10 points or more returns a result, and its segments are
\* those of the keepable candidates and no others: a candidate with a
\* missing timestamp or no positive elapsed time leaves no segment, and the
\* next candidate starts where it closed
DroppedCandidatesAreSkipped ==
    /\ (class = "ActivityPerformanceAnalyzer" /\ calls # << >>
            /\ Len(points) >= MIN_POINTS) => fresult.outcome = "returned"
    /\ fresult.outcome = "returned" =>
          LET kept == KeptStarts(points)
          IN  /\ Len(segments) = Cardinality(kept)
              /\ \A a \in kept : \E j \in 1..Len(segments) :
                     segments[j] = SegmentMetrics(points[a + 1],
                                                  points[CloseOf(points, a) + 1])

\* C20 as stated: every kept fixed segment has distance > 0 and time > 0,
\* and dropped candidates are skipped without failing the run.
C20_KeptSegmentsArePositive ==
    /\ DroppedCandidatesAreSkipped
    /\ \A j \in 1..Len(segments) :
           segments[j].distance_km > 0 /\ segments[j].time_seconds > 0

\* C20: every fixed segment that is kept covers a distance > 0 in a time > 0
\* between its end points, and dropped candidates are skipped without
\* failing the run; the distance a kept segment records is rounded to
\* 0.01 km and is 0.00 when the segment is shorter than 5 m.
C20_KeptSegmentsCoverDistanceAndTime ==
    /\ DroppedCandidatesAreSkipped
    /\ LET kept == IF segments = << >> THEN {} ELSE KeptStarts(points)
       IN  \A j \in 1..Len(segments) :
               /\ segments[j].time_seconds > 0
               /\ segments[j].distance_km >= 0
               /\ \E a \in kept :
                      LET b == CloseOf(points, a)
                          d == points[b + 1].distance_m - points[a + 1].distance_m
                      IN  /\ segments[j] = SegmentMetrics(points[a + 1], points[b + 1])
                          /\ d > 0
                          /\ segments[j].distance_km = 0 <=> d < 5

\* analyze() returned after dropping a candidate whose closing point starts
\* a kept segment, and the last kept segment records a distance of 0.00 km
C20_Witness ==
    /\ fresult.outcome = "returned"
    /\ \E a \in SegmentStarts(points) \ {Len(points) - 1} :
           /\ ~Keepable(points, a, CloseOf(points, a))
           /\ CloseOf(points, a) \in KeptStarts(points)
    /\ segments # << >>
    /\ segments[Len(segments)].distance_km = 0

\* C28: for a non-empty prediction list and any total course distance,
\* predict_finish returns no finish earlier than the last station's predicted
\* arrival: predicted_total_minutes >= its predicted_arrival_minutes and
\* predicted_finish_time >= its predicted_arrival_time.
C28_FinishNotBeforeLastArrival ==
    (finresult.outcome = "returned" /\ predictions # << >>) =>
        LET last_prediction == predictions[Len(predictions)]
        IN  /\ finresult.value.predicted_total_minutes
                   >= last_prediction.predicted_arrival_minutes
            /\ finresult.value.predicted_finish_time
                   >= last_prediction.predicted_arrival_time

\* C21: the terrain factor lies in [0.5, 3.0] for every station and segment
\* distance, in a direct call and in every result of predict; a segment
\* distance of 0 or less gives exactly 1; and the gradient is clamped to
\* [-0.5, 0.5] before the cost model, so a descent steeper than 1 in 2 gives
\* the factor of the gradient -1/2, 653/576, and a climb steeper than 1 in 2
\* the factor of the gradient 1/2, which the upper clamp makes 3.
C21_TerrainFactorIsClamped ==
    /\ tfresult.outcome = "returned" =>
           LET factor == tfresult.value
               segment_distance == terrain_args.segment_distance
               gain == terrain_args.elevation_gain_from_prev_m
               loss == terrain_args.elevation_loss_from_prev_m
               net == (IF gain = None THEN 0 ELSE gain[1])
                        - (IF loss = None THEN 0 ELSE loss[1])
           IN  /\ 2 * factor.num >= factor.den
               /\ factor.num <= 3 * factor.den
               /\ segment_distance <= 0 => factor = Fraction(1, 1)
               /\ (segment_distance > 0 /\ net <= -5 * segment_distance)
                      => factor = Fraction(653, 576)
               /\ (segment_distance > 0 /\ net >= 5 * segment_distance)
                      => factor = Fraction(3, 1)
               /\ (segment_distance > 0 /\ net = 0) => factor = Fraction(1, 1)
    /\ race_result.outcome = "returned" =>
           \A k \in 1..Len(race_result.value) :
               LET factor == race_result.value[k].terrain_factor
                   st == race_stations[k]
               IN  /\ factor >= 50
                   /\ factor <= 300
                   /\ (st.distance_from_prev_km = Some(0)
                         \/ (st.distance_from_prev_km = None /\ k > 1
                               /\ race_stations[k - 1].distance_km = st.distance_km))
                          => factor = 100

\* the terrain factor was computed for a descent of 2 in 11, where the cost
\* ratio is below 0.5 and the lower clamp decides
C21_Witness ==
    /\ tfresult.outcome = "returned"
    /\ terrain_args.segment_distance = 110
    /\ terrain_args.elevation_loss_from_prev_m = Some(200)
    /\ terrain_args.elevation_gain_from_prev_m = Some(0)
    /\ tfresult.value = Fraction(1, 2)
    /\ LET unclamped == calculate_terrain_factor_unclamped(terrain_args, 110)
       IN  2 * unclamped.num < unclamped.den

\* C22: predict returns one result per aid station, in the order of the
\* stations, and the time from one arrival to the next is segment_distance x
\* segment_pace, where segment_distance is the explicit distance from the
\* previous station when one is supplied, 0 included, and otherwise the
\* station's distance less the previous station's, and segment_pace is
\* base_pace x terrain_factor x fatigue_factor x nighttime_factor; so the
\* cumulative time at station k is the sum of these products up to k.
C22_ArrivalsSumSegmentTimes ==
    race_result.outcome = "returned" =>
        LET results == race_result.value
            base_pace == IF Truthy(race_base_pace) THEN race_base_pace[1] ELSE FLAT_PACE
        IN  /\ Len(results) = Len(race_stations)
            /\ \A k \in 1..Len(results) :
                   LET st == race_stations[k]
                       prev_distance_km ==
                           IF k = 1 THEN 0 ELSE race_stations[k - 1].distance_km
                       prev_arrival ==
                           IF k = 1 THEN 0 ELSE results[k - 1].predicted_arrival_time
                       segment_distance ==
                           IF st.distance_from_prev_km # None
                           THEN st.distance_from_prev_km[1]
                           ELSE st.distance_km - prev_distance_km
                       terrain == calculate_terrain_factor(st, segment_distance)
                       fatigue == calculate_fatigue_factor(<< >>, st.distance_km,
                                                           race_total_km)
                       num == base_pace * terrain.num * fatigue.num
                                * results[k].nighttime_factor
                       den == terrain.den * fatigue.den * 100000
                   IN  /\ results[k].distance_km = st.distance_km
                       /\ results[k].cutoff_hours_from_start = st.cutoff_hours_from_start
                       /\ num % den = 0
                       /\ results[k].segment_pace_min_km = num \div den
                       /\ 500 * (results[k].predicted_arrival_time - prev_arrival)
                              = 3 * segment_distance * (num \div den)
                       /\ results[k].predicted_arrival_minutes
                              = RoundDiv(results[k].predicted_arrival_time, 60)

\* predict returned for two stations 5 km apart of which the second gives
\* an explicit distance of 0 from the first, and arrives with it
C22_Witness ==
    /\ race_result.outcome = "returned"
    /\ Len(race_stations) = 2
    /\ race_stations[1].distance_km < race_stations[2].distance_km
    /\ race_stations[1].distance_from_prev_km = None
    /\ race_stations[2].distance_from_prev_km = Some(0)
    /\ race_result.value[1].predicted_arrival_time > 0
    /\ race_result.value[2].predicted_arrival_time
           = race_result.value[1].predicted_arrival_time

\* C23: for every station, is_nighttime is true exactly when the hour of the
\* day of that station's predicted arrival (start_time + the cumulative
\* time at the station) is 21 or later or earlier than 6, and
\* nighttime_factor is 1 + slowdown when it is true and 1 otherwise.
C23_NightJudgedAtArrival ==
    race_result.outcome = "returned" =>
        \A k \in 1..Len(race_result.value) :
            LET result == race_result.value[k]
                hour == ((race_start + result.predicted_arrival_time) \div 3600) % 24
            IN  /\ result.is_nighttime <=> (hour >= 21 \/ hour < 6)
                /\ result.nighttime_factor
                       = IF result.is_nighttime THEN 100 + NIGHTTIME_SLOWDOWN ELSE 100

\* C23 as the code has it: is_nighttime is true exactly when the hour of the
\* day at which the segment to the station begins (start_time for the first
\* station, the previous station's predicted arrival for a later one) is 21
\* or later or earlier than 6, and nighttime_factor is 1 + slowdown when it
\* is true and 1 otherwise.
C23_NightJudgedAtSegmentStart ==
    race_result.outcome = "returned" =>
        \A k \in 1..Len(race_result.value) :
            LET result == race_result.value[k]
                so_far == IF k = 1 THEN 0
                          ELSE race_result.value[k - 1].predicted_arrival_time
                hour == ((race_start + so_far) \div 3600) % 24
            IN  /\ result.is_nighttime <=> (hour >= 21 \/ hour < 6)
                /\ result.nighttime_factor
                       = IF result.is_nighttime THEN 100 + NIGHTTIME_SLOWDOWN ELSE 100

\* predict returned for a start at 20:00 with a first station reached after
\* 21:00 at day pace and a second one, further on, at night pace
C23_Witness ==
    /\ race_result.outcome = "returned"
    /\ Len(race_result.value) = 2
    /\ race_start = 20 * 3600
    /\ race_result.value[1].predicted_arrival_time >= 3600
    /\ ~race_result.value[1].is_nighttime
    /\ race_result.value[2].is_nighttime
    /\ race_result.value[1].predicted_arrival_time
           < race_result.value[2].predicted_arrival_time

\* C29: in every result of predict, buffer_minutes is absent exactly when
\* cutoff_time is absent, and when it is present the status of the result is
\* the classification of the buffer_minutes the result carries: below 0
\* missed, from 0 to below 15 danger, from 15 to below 30 warning, 30 or more
\* safe.
C29_ResultIsSelfConsistent ==
    race_result.outcome = "returned" =>
        \A k \in 1..Len(race_result.value) :
            LET result == race_result.value[k]
            IN  /\ result.buffer_minutes = None <=> result.cutoff_time = None
                /\ result.buffer_minutes # None =>
                       result.status = StatusOfBuffer(60 * result.buffer_minutes[1])

\* the segments analyze() left whose midpoint lies in progress bucket b: from
\* 10 b % to below 10 (b + 1) % of the total distance, bucket 9 taking all
\* from 90 % on
MidpointBucketMembers(b) ==
    LET total_distance_m == points[Len(points)].distance_m
    IN  { j \in 1..Len(segments) :
            LET ends == segments[j].start_distance_km + segments[j].end_distance_km
            IN  /\ 50 * ends >= b * total_distance_m
                /\ b < 9 => 50 * ends < (b + 1) * total_distance_m }

\* the profile holds exactly the non-empty buckets, each with its mean pace
\* over the mean pace of the segments of the first two buckets, rounded to
\* three decimals
ProfileHoldsBucketRatios(profile) ==
    LET PaceSum(members) ==
            Sum([j \in 1..Len(segments) |->
                    IF j \in members THEN segments[j].actual_pace_min_km ELSE 0])
        baseline == MidpointBucketMembers(0) \cup MidpointBucketMembers(1)
    IN  /\ \A j \in 1..Len(segments) :
               Cardinality({ b \in 0..9 : j \in MidpointBucketMembers(b) }) = 1
        /\ \A b \in 0..9 :
               LET members == MidpointBucketMembers(b)
               IN  /\ ProgressKey(b) \in DOMAIN profile.pace_by_progress_pct
                          <=> members # {}
                   /\ members # {} =>
                          profile.pace_by_progress_pct[ProgressKey(b)]
                              = RoundDiv(1000 * PaceSum(members) * Cardinality(baseline),
                                         Cardinality(members) * PaceSum(baseline))

\* C24: the normalized progress-% profile of an analysis is absent when there
\* are fewer than 5 fixed segments or the total distance is under 5 km;
\* otherwise it is present, every segment is assigned by its midpoint to
\* exactly one of the ten buckets, only the non-empty buckets appear, and
\* each value is the bucket's mean over the baseline of the first two buckets.
C24_ProfileOfFiveSegmentsAndFiveKm ==
    fresult.outcome = "returned" =>
        LET profile == fresult.value.normalized_pace_profile
        IN  IF Len(segments) < 5 \/ points[Len(points)].distance_m < 5000
            THEN profile = None
            ELSE profile # None /\ ProfileHoldsBucketRatios(profile[1])

\* C24 as the code has it: the profile is also absent when no segment has
\* its midpoint in the first two buckets, for want of a baseline; in every
\* other case it is as C24 says, the values rounded to three decimals.
C24_ProfileNeedsBaseline ==
    fresult.outcome = "returned" =>
        LET profile == fresult.value.normalized_pace_profile
        IN  IF \/ Len(segments) < 5
               \/ points[Len(points)].distance_m < 5000
               \/ MidpointBucketMembers(0) \cup MidpointBucketMembers(1) = {}
            THEN profile = None
            ELSE profile # None /\ ProfileHoldsBucketRatios(profile[1])

\* analyze() returned a profile whose buckets differ in pace and which lacks
\* a bucket no segment falls in
C24_Witness ==
    /\ fresult.outcome = "returned"
    /\ fresult.value.normalized_pace_profile # None
    /\ LET pace_by_progress_pct ==
               fresult.value.normalized_pace_profile[1].pace_by_progress_pct
       IN  /\ \E key \in DOMAIN pace_by_progress_pct : pace_by_progress_pct[key] # 1000
           /\ \E b \in 0..9 : ProgressKey(b) \notin DOMAIN pace_by_progress_pct

C26_TerrainTypeAgreesWithGrade ==
    tresult.outcome = "returned" =>
        \A k \in 1..Len(tresult.value.segments) :
            LET segment == tresult.value.segments[k]
            IN  /\ segment.terrain_type = "climb"
                       <=> segment.grade_category
                               \in {"steep_climb", "moderate_climb", "gentle_climb"}
                /\ segment.terrain_type = "descent"
                       <=> segment.grade_category
                               \in {"gentle_descent", "moderate_descent", "steep_descent"}
                /\ segment.terrain_type = "flat" <=> segment.grade_category = "flat"

\* C27: in the list analyze() returns, the k-th segment (from 0) has
\* segment_index k, and the summary's total_segments is the length of the
\* list.
C27_SegmentIndexIsPosition ==
    tresult.outcome = "returned" =>
        /\ \A k \in 1..Len(tresult.value.segments) :
               tresult.value.segments[k].segment_index = k - 1
        /\ tresult.value.summary.total_segments = Len(tresult.value.segments)

\* C30: when the calculate_performance_profile task is given a serialized
\* activity result that has a normalized profile with gap multipliers (its
\* distance and weight being positive), the decay map of the profile it
\* returns has a value for each of that profile's buckets, and is the map a
\* direct call of the aggregator on the same results and weights returns.
C30_TaskKeepsPaceDecay ==
    (task_result.outcome = "returned" /\ task_result.value.success) =>
        LET valid == WithoutFailed(analyses, task_failed, 1)
            weights == WithoutFailed(recency_weights, task_failed, 1)
            decay == task_result.value.profile.pace_decay_by_progress_pct
        IN  /\ \A i \in 1..Len(valid) :
                   valid[i].normalized_pace_profile # None =>
                       DOMAIN valid[i].normalized_pace_profile[1].gap_by_progress_pct
                           \subseteq DOMAIN decay
            /\ \E direct \in PerformanceProfiles(valid, Some(weights)) :
                   direct.pace_decay_by_progress_pct = decay

====
